---------------------------- MODULE Spec2Model ----------------------------
(***************************************************************************)
(* Verification model of lasso.js: the Express middleware for a SAML       *)
(* Service Provider (lib/express.ts: createSamlSp, isValidRedirectUrl)     *)
(* driving the Lasso protocol engine.                                      *)
(*                                                                         *)
(* Strings that the code inspects character by character (redirect         *)
(* targets, host names) are sequences of tokens: "/" and ":" are the       *)
(* delimiters the code and the URL parser look at, every other token is a  *)
(* run of ordinary characters (a scheme name, a host name, a port, a path  *)
(* segment).                                                               *)
(***************************************************************************)
EXTENDS Integers, Sequences, FiniteSets, TLC

\* ------------------------------------------------------------------------
\* Bounds of the model
\* ------------------------------------------------------------------------
\* longest redirect target, in tokens, handed to isValidRedirectUrl
MaxUrlLen == 5
\* number of HTTP requests the browser sends to the middleware
MaxReq == 3
\* number of calls of lasso_init and lasso_shutdown
MaxEngineCalls == 6
\* the latest time, in milliseconds after the start, at which one arrives
MaxNow == 300001

\* ------------------------------------------------------------------------
\* Program constants
\* ------------------------------------------------------------------------
\* const stateMaxAge = config.stateMaxAge ?? 300000
StateMaxAgeDefault == 300000

\* ------------------------------------------------------------------------
\* Values
\* ------------------------------------------------------------------------
\* JavaScript undefined / null / a missing property
Absent == "absent"

\* ------------------------------------------------------------------------
\* State
\* ------------------------------------------------------------------------
VARIABLES
    url,        \* isValidRedirectUrl: the argument url
    hosts,      \* isValidRedirectUrl: the argument allowedHosts (or Absent)
    verdict,    \* isValidRedirectUrl: the value returned (FALSE before the call)
    urlPc       \* "call" before isValidRedirectUrl ran, "return" after

urlVars == <<url, hosts, verdict, urlPc>>

VARIABLES
    \* createSamlSp: the configuration as read at construction
    allowedRedirectHosts,   \* config.allowedRedirectHosts (or Absent)
    stateMaxAge,            \* config.stateMaxAge ?? 300000
    regenerateSession,      \* config.regenerateSession !== false
    defaultRedirectUrl,     \* config.defaultRedirectUrl || "/"
    sessionKind,            \* what req.session is: "none" (no session
                            \* middleware), "plain" (an object without
                            \* regenerate) or "regen" (express-session)
    onLogout,               \* config.onLogout is configured
    getNameId,              \* config.getNameId: Absent when not configured,
                            \* else what it returns
    \* the environment
    now,                    \* Date.now()
    nextNonce,              \* the next value crypto.randomUUID() returns
    \* the browser's HTTP session
    sessions,               \* every session object ever created
    cur,                    \* the session object a new request gets as
                            \* req.session (0: none)
    \* the requests: those still to arrive, those whose handler is
    \* suspended at an await, and those answered
    reqs,
    \* the request answered last, with its response
    last

cfgVars == <<allowedRedirectHosts, stateMaxAge, regenerateSession,
             defaultRedirectUrl, sessionKind, onLogout, getNameId>>
mwVars == <<cfgVars, now, nextNonce, sessions, cur, reqs, last>>

VARIABLES
    \* the protocol engine binding (src/lasso.cc, src/utils.cc)
    g_lasso_initialized,    \* static bool g_lasso_initialized
    engine,                 \* how often lasso_init and lasso_shutdown were
                            \* called, and how often each returned 0
    api                     \* the last call of init(), shutdown() or
                            \* isInitialized() and what it returned

engVars == <<g_lasso_initialized, engine, api>>

VARIABLES
    \* createSamlSp: the lazily initialized server
    server,                 \* let server: "null", or what the Server holds
    initPromise,            \* let initPromise: "null", or the state of the
                            \* promise initServer() returned
    initCalls,              \* how often initServer, Server.fromBuffers and
                            \* addProviderFromBuffer were called
    initReqs                \* the requests passing through initMiddleware

initVars == <<server, initPromise, initCalls, initReqs>>

VARIABLES
    \* escapeHtml
    escArg,                 \* the argument str
    escaped,                \* the value returned by the last call
    passes                  \* how many times escapeHtml has been applied

escVars == <<escArg, escaped, passes>>

VARIABLES
    \* a Login transaction and the native objects of the engine
    heap,                   \* the native objects ever allocated
    profile,                \* the LassoProfile of the transaction
    wrappers,               \* the Identity and Session wrappers handed out
    got                     \* the last accessor read and what it returned

txVars == <<heap, profile, wrappers, got>>

VARIABLES
    \* a Server (src/server.cc)
    lassoServer,            \* the LassoServer behind the wrapper
    srvResult               \* the last call on the Server and its result

srvVars == <<lassoServer, srvResult>>

VARIABLES
    \* requireAuth
    gateSession,            \* req.session as the middleware finds it
    originalUrl,            \* req.originalUrl
    gate                    \* what the middleware did

gateVars == <<gateSession, originalUrl, gate>>

VARIABLES
    \* the wrappers of the binding and the garbage collector
    jsObjects,              \* the wrapper objects ever created
    natives                 \* the native objects behind them

lifeVars == <<jsObjects, natives>>

\* the binding's classes
libVars == <<escVars, txVars, srvVars, gateVars, lifeVars>>

\* the variables the route handlers leave alone
sideVars == <<urlVars, engVars, initVars, libVars>>

vars == <<urlVars, mwVars, engVars, initVars, libVars>>

\* ------------------------------------------------------------------------
\* Redirect-target validation (lib/express.ts, isValidRedirectUrl)
\* ------------------------------------------------------------------------
\* String.prototype.startsWith on a token sequence
startsWith(s, p) ==
    /\ Len(s) >= Len(p)
    /\ \A i \in 1..Len(p) : s[i] = p[i]

\* A token that is a run of ordinary characters (no "/" and no ":")
IsWord(t) == t \notin {"/", ":"}

\* Schemes the URL parser treats as special (they always carry a host)
SpecialSchemes == {"https", "http"}

\* A port is a run of digits
Ports == {"8443"}

\* The result of new URL(url) when the constructor throws
UrlFailure == [ok |-> FALSE, host |-> <<>>]

\* The longest prefix of s that holds no "/"
RECURSIVE UpToSlash(_)
UpToSlash(s) ==
    IF s = <<>> \/ Head(s) = "/" THEN <<>>
    ELSE <<Head(s)>> \o UpToSlash(Tail(s))

\* s without its leading "/" tokens
RECURSIVE SkipSlashes(_)
SkipSlashes(s) ==
    IF s # <<>> /\ Head(s) = "/" THEN SkipSlashes(Tail(s)) ELSE s

\* The authority a of a URL (the text between "//" and the next "/"):
\* host, host ":" or host ":" port.  URL.host keeps a port that is given.
\* An authority with no host name, or with a port that is not a number, makes
\* the constructor throw; needHost says whether an empty authority does too.
ParseAuthority(a, needHost) ==
    IF a = <<>> THEN
        IF needHost THEN UrlFailure ELSE [ok |-> TRUE, host |-> <<>>]
    ELSE IF ~IsWord(a[1]) THEN UrlFailure
    ELSE IF Len(a) = 1 THEN [ok |-> TRUE, host |-> a]
    ELSE IF a[2] # ":" THEN UrlFailure
    ELSE IF Len(a) = 2 THEN [ok |-> TRUE, host |-> <<a[1]>>]
    ELSE IF Len(a) = 3 /\ a[3] \in Ports THEN [ok |-> TRUE, host |-> a]
    ELSE UrlFailure

\* new URL(url) with no base: the constructor throws unless url begins with
\* a scheme and ":".  A special scheme takes its host after any number of
\* slashes; any other scheme has a host only after "//" and otherwise an
\* opaque path and the empty host (javascript:, data:).
ParseUrl(u) ==
    IF Len(u) < 2 \/ ~IsWord(u[1]) \/ u[1] \in Ports \/ u[2] # ":" THEN UrlFailure
    ELSE LET rest == SubSeq(u, 3, Len(u)) IN
         IF u[1] \in SpecialSchemes
         THEN ParseAuthority(UpToSlash(SkipSlashes(rest)), TRUE)
         ELSE IF startsWith(rest, <<"/", "/">>)
              THEN ParseAuthority(UpToSlash(SubSeq(rest, 3, Len(rest))), FALSE)
              ELSE [ok |-> TRUE, host |-> <<>>]

\* Array.prototype.includes
includes(list, x) == \E i \in 1..Len(list) : list[i] = x

\* isValidRedirectUrl without the test for a protocol-relative target
isValidRedirectUrl_NoDoubleSlashTest(u, allowedHosts) ==
    IF startsWith(u, <<"/">>) THEN TRUE
    ELSE IF allowedHosts # Absent /\ Len(allowedHosts) > 0 THEN
        LET parsed == ParseUrl(u) IN
        IF parsed.ok THEN includes(allowedHosts, parsed.host) ELSE FALSE
    ELSE FALSE

\* isValidRedirectUrl comparing the host names only (URL.hostname), so that
\* a port, or the rest of an allow-list entry, no longer counts
isValidRedirectUrl_Hostname(u, allowedHosts) ==
    IF startsWith(u, <<"/">>) /\ ~startsWith(u, <<"/", "/">>) THEN TRUE
    ELSE IF allowedHosts # Absent /\ Len(allowedHosts) > 0 THEN
        LET parsed == ParseUrl(u) IN
        IF parsed.ok /\ parsed.host # <<>>
        THEN \E i \in 1..Len(allowedHosts) : allowedHosts[i][1] = parsed.host[1]
        ELSE FALSE
    ELSE FALSE

\* isValidRedirectUrl(url, allowedHosts), allowedHosts Absent when omitted
isValidRedirectUrl(u, allowedHosts) ==
    IF startsWith(u, <<"/">>) /\ ~startsWith(u, <<"/", "/">>) THEN TRUE
    ELSE IF allowedHosts # Absent /\ Len(allowedHosts) > 0 THEN
        LET parsed == ParseUrl(u) IN
        IF parsed.ok THEN includes(allowedHosts, parsed.host) ELSE FALSE
    ELSE FALSE

\* host names an application may allow
HostExample == <<"example.com">>
HostTrusted == <<"trusted.org">>
HostWithPort == <<"example.com", ":", "8443">>

\* allowedRedirectHosts: omitted, empty, one host, several hosts
AllowLists == {Absent, <<>>, <<HostExample>>, <<HostExample, HostTrusted>>,
               <<HostTrusted, HostWithPort>>}

\* ------------------------------------------------------------------------
\* Text helpers used by the handlers
\* ------------------------------------------------------------------------
\* str.replace(/c/g, entity): every occurrence of c, left to right
RECURSIVE replace(_, _, _)
replace(str, c, entity) ==
    IF str = <<>> THEN <<>>
    ELSE (IF Head(str) = c THEN entity ELSE <<Head(str)>>)
            \o replace(Tail(str), c, entity)

\* the entities, character by character ("amp", "lt", ... stand for their
\* letters, none of which is special)
Amp  == <<"&", "amp", ";">>
Lt   == <<"&", "lt", ";">>
Gt   == <<"&", "gt", ";">>
Quot == <<"&", "quot", ";">>
Apos == <<"&", "#x27", ";">>

\* the same chain with the ampersand replaced last
escapeHtml_AmpersandLast(str) ==
    replace(replace(replace(replace(replace(str,
        "<", Lt), ">", Gt), "\"", Quot), "'", Apos), "&", Amp)

\* escapeHtml(str): five replacements in a row, the ampersand first
escapeHtml(str) ==
    replace(replace(replace(replace(replace(str,
        "&", Amp), "<", Lt), ">", Gt), "\"", Quot), "'", Apos)

\* encodeURIComponent(str): the reserved characters are percent-encoded
encodeURIComponent(str) ==
    [i \in 1..Len(str) |->
        CASE str[i] = "/" -> "%2F"
          [] str[i] = ":" -> "%3A"
          [] str[i] = "?" -> "%3F"
          [] str[i] = "&" -> "%26"
          [] str[i] = "=" -> "%3D"
          [] str[i] = "%" -> "%25"
          [] OTHER        -> str[i]]

\* what the receiver of a query parameter reads back (decodeURIComponent)
decodeURIComponent(str) ==
    [i \in 1..Len(str) |->
        CASE str[i] = "%2F" -> "/"
          [] str[i] = "%3A" -> ":"
          [] str[i] = "%3F" -> "?"
          [] str[i] = "%26" -> "&"
          [] str[i] = "%3D" -> "="
          [] str[i] = "%25" -> "%"
          [] OTHER          -> str[i]]

\* a || b on strings: the empty string and undefined are falsy
OrElse(a, b) == IF a # <<>> THEN a ELSE b

\* ------------------------------------------------------------------------
\* The HTTP session (req.session) and the requests
\* ------------------------------------------------------------------------
\* session.samlLoginState when the property is missing
NoState == [present |-> FALSE, relayState |-> <<>>, nonce |-> 0, timestamp |-> 0]

\* a session object with no property set; user is session[sessionProperty]
EmptySession == [samlLoginState |-> NoState, user |-> Absent,
                 samlNameId |-> Absent, samlNameIdFormat |-> Absent]

\* lasso.NameIdFormat.UNSPECIFIED
UNSPECIFIED == "unspecified"

\* a request that has not arrived yet
NoReq == [kind |-> "none", pc |-> "idle",
          \* what the request carries
          returnTo |-> <<>>, samlResponse |-> FALSE, reqRelayState |-> <<>>,
          samlRequest |-> FALSE,
          \* what the protocol engine did with it
          eng |-> "none",
          \* the handler's local variables
          session |-> 0, relayState |-> <<>>, nameId |-> Absent,
          nameIdFormat |-> Absent, user |-> Absent,
          \* the HTTP response
          status |-> 0, body |-> "none", location |-> <<>>,
          \* the error handed to next(err)
          err |-> "none",
          formAction |-> <<>>, formRelayState |-> <<>>,
          formSamlRequest |-> <<>>,
          \* observations: the CSRF state the handler found, its age, and
          \* the calls the handler made, in order
          hadState |-> FALSE, storedRelay |-> <<>>, elapsed |-> 0, nonce |-> 0,
          csrfPassed |-> FALSE, calls |-> <<>>,
          \* whether the session held an authenticated record on arrival
          hadRecord |-> FALSE]

Requests == 1..MaxReq

\* requests arrive in the order of their numbers
CanStart(r) ==
    /\ reqs[r].kind = "none"
    /\ IF r = 1 THEN TRUE ELSE reqs[r - 1].kind # "none"

\* the message of the error a handler catches: LassoError(rc, context) of
\* the engine call that failed, the handler's own Error, or whatever the
\* callback it awaited threw
ErrorOf(rec) ==
    CASE rec.pc \in {"onAuth", "regenerate", "onLogout"} -> rec.pc
      [] rec.eng = "processResponseMsg throws" ->
            "lasso_login_process_response_msg: Lasso error"
      [] rec.eng = "acceptSso throws" ->
            "lasso_login_accept_sso: Lasso error"
      [] rec.eng = "no nameId" -> "No NameID in SAML response"
      [] OTHER -> rec.eng

\* next(err): Express answers with its error page
Failed(rec) == [rec EXCEPT !.pc = "done", !.status = 500, !.body = "error",
                           !.err = ErrorOf(rec)]

\* a request that has been answered
Answered == [NoReq EXCEPT !.kind = "answered", !.pc = "done"]

\* request r is answered as rec says
Respond(r, rec) ==
    /\ reqs' = [reqs EXCEPT ![r] = Answered]
    /\ last' = rec

\* the delays between two requests of the browser, in milliseconds
Delays == {0, stateMaxAge - 1, stateMaxAge, stateMaxAge + 1}

\* ------------------------------------------------------------------------
\* GET /login
\* ------------------------------------------------------------------------
\* the redirect URL lasso_login_build_authn_request_msg leaves in msg_url
IdpSsoUrl == <<"https", ":", "/", "/", "idp.example.org", "/", "sso", "?",
               "SAMLRequest=", "request">>

\* what the engine does with the Login of a /login request: the call that
\* throws, or whether the message it built has a msg_url (result.responseUrl)
LoginEngineResults == {"initAuthnRequest throws", "buildAuthnRequestMsg throws",
                       "msg_url", "no msg_url"}

\* the directives buildAuthnRequestMsg can return: the redirect binding
\* leaves a msg_url, the POST binding a msg_url and a msg_body
LoginDirectives == LoginEngineResults \cup {"msg_url and msg_body"}

\* /login going on although buildAuthnRequestMsg threw
LoginThrows_BuildIgnored(eng) == eng = "initAuthnRequest throws"

LoginThrows(eng) ==
    eng \in {"initAuthnRequest throws", "buildAuthnRequestMsg throws"}

\* result.responseUrl and result.responseBody (<<>>: not set)
ResponseUrl(eng) ==
    IF eng \in {"msg_url", "msg_url and msg_body"} THEN IdpSsoUrl ELSE <<>>

ResponseBody(eng) ==
    IF eng \in {"no msg_url", "msg_url and msg_body"}
    THEN <<"request", "\"", ">">> ELSE <<>>

\* /login going on to consume a response with the Login it built the
\* request with
LoginCalls_ThenConsumes(eng) ==
    <<"new Login", "initAuthnRequest", "buildAuthnRequestMsg",
      "processResponseMsg">>

\* the calls /login makes on its Login, in order
LoginCalls(eng) ==
    IF eng = "initAuthnRequest throws"
    THEN <<"new Login", "initAuthnRequest">>
    ELSE <<"new Login", "initAuthnRequest", "buildAuthnRequestMsg">>

\* the returnTo query parameters a browser sends (<<>>: none)
ReturnTos == {<<>>,
              <<"/", "dashboard">>,
              <<"/", "/", "example.com">>,
              <<"https", ":", "/", "/", "example.com", "/", "p">>}

\* /login binding the returnTo parameter without validating it
LoginRelayState_Unvalidated(returnTo) ==
    OrElse(returnTo, defaultRedirectUrl)

\* relayState as /login computes it from the returnTo parameter
LoginRelayState(returnTo) ==
    LET relayState == OrElse(returnTo, defaultRedirectUrl) IN
    IF ~isValidRedirectUrl(relayState, allowedRedirectHosts)
    THEN defaultRedirectUrl ELSE relayState

\* the URL /login redirects to
LoginRedirectUrl(responseUrl, relayState) ==
    LET separator == IF includes(responseUrl, "?") THEN "&" ELSE "?" IN
    IF relayState # <<>>
    THEN responseUrl \o <<separator, "RelayState=">> \o encodeURIComponent(relayState)
    ELSE responseUrl

\* the RelayState parameter the provider reads from the URL it is sent to
RECURSIVE AfterToken(_, _)
AfterToken(s, t) ==
    IF s = <<>> THEN <<>>
    ELSE IF Head(s) = t THEN Tail(s)
    ELSE AfterToken(Tail(s), t)

RelayStateParam(location) == decodeURIComponent(AfterToken(location, "RelayState="))

\* /login keeping the CSRF state the session already holds
StoredLoginState_KeepFirst(old, relayState, nonce, timestamp) ==
    IF old.present THEN old
    ELSE [present |-> TRUE, relayState |-> relayState, nonce |-> nonce,
          timestamp |-> timestamp]

\* session.samlLoginState = { relayState, nonce, timestamp }
StoredLoginState(old, relayState, nonce, timestamp) ==
    [present |-> TRUE, relayState |-> relayState, nonce |-> nonce,
     timestamp |-> timestamp]

GetLogin(r, delay, returnTo, eng) ==
    /\ CanStart(r)
    /\ now + delay <= MaxNow
    /\ now' = now + delay
    /\ LET relayState == LoginRelayState(returnTo)
           session == cur
           arrived == [NoReq EXCEPT !.kind = "login", !.returnTo = returnTo,
                          !.eng = eng, !.session = session,
                          !.relayState = relayState, !.calls = LoginCalls(eng)]
       IN
       IF LoginThrows(eng) THEN
           /\ Respond(r, Failed(arrived))
           /\ UNCHANGED <<sessions, nextNonce>>
       ELSE
           /\ IF session # 0
              THEN /\ sessions' = [sessions EXCEPT ![session].samlLoginState =
                                     StoredLoginState(@, relayState, nextNonce,
                                                      now')]
                   /\ nextNonce' = nextNonce + 1
              ELSE UNCHANGED <<sessions, nextNonce>>
           /\ Respond(r,
                 LET built == [arrived EXCEPT !.pc = "done",
                                  !.nonce = IF session # 0 THEN nextNonce ELSE 0]
                 IN IF ResponseUrl(eng) # <<>>
                    THEN [built EXCEPT !.status = 302, !.body = "redirect",
                             !.location = LoginRedirectUrl(ResponseUrl(eng),
                                                           relayState)]
                    ELSE [built EXCEPT !.status = 200, !.body = "form",
                             !.formAction =
                                 escapeHtml(OrElse(ResponseUrl(eng), <<>>)),
                             !.formSamlRequest =
                                 escapeHtml(OrElse(ResponseBody(eng), <<>>)),
                             !.formRelayState = escapeHtml(relayState)])
    /\ UNCHANGED <<cfgVars, cur, sideVars>>

\* ------------------------------------------------------------------------
\* POST /acs
\* ------------------------------------------------------------------------
\* what the engine does with the Login of an /acs request: the first call
\* that throws, or the name identifier it extracted
AcsEngineResults == {"processResponseMsg throws", "acceptSso throws",
                     "no nameId", "nameId", "nameId and format"}

\* /acs going on although acceptSso threw
AcsThrows_AcceptSsoIgnored(eng) ==
    eng \in {"processResponseMsg throws", "no nameId"}

\* /acs going on although no name identifier was extracted
AcsThrows_NameIdIgnored(eng) ==
    eng \in {"processResponseMsg throws", "acceptSso throws"}

\* the handler throws before it reaches config.onAuth
AcsThrows(eng) ==
    eng \in {"processResponseMsg throws", "acceptSso throws", "no nameId"}

\* the calls /acs makes once the CSRF check passed, in order, up to onAuth
AcsCalls(eng) ==
    CASE eng = "processResponseMsg throws" ->
            <<"new Login", "processResponseMsg">>
      [] eng = "acceptSso throws" ->
            <<"new Login", "processResponseMsg", "acceptSso">>
      [] eng = "no nameId" ->
            <<"new Login", "processResponseMsg", "acceptSso", "nameId">>
      [] OTHER ->
            <<"new Login", "processResponseMsg", "acceptSso", "nameId", "onAuth">>

\* the RelayState form fields a browser posts (<<>>: none)
RelayStates == {<<>>, <<"https", ":", "/", "/", "example.com.evil.com">>}

\* what config.onAuth does: it throws (or rejects), or returns the user
Users == {"user1"}
OnAuthResults == Users \cup {"throws"}

\* the CSRF check looking at the age only
CsrfRejected_AgeOnly(storedState, dateNow) ==
    dateNow - storedState.timestamp > stateMaxAge

\* the CSRF check refusing a state that is exactly stateMaxAge old
CsrfRejected_Strict(storedState, dateNow) ==
    ~storedState.present \/ dateNow - storedState.timestamp >= stateMaxAge

\* the CSRF check: the request is refused
CsrfRejected(storedState, dateNow) ==
    ~storedState.present \/ dateNow - storedState.timestamp > stateMaxAge

\* /acs preferring the RelayState the request carries
AcsRelayState_FromRequest(storedState, reqRelayState) ==
    OrElse(reqRelayState, OrElse(storedState.relayState, defaultRedirectUrl))

\* relayState as /acs computes it; reqRelayState is req.body.RelayState
AcsRelayState(storedState, reqRelayState) ==
    LET relayState == OrElse(storedState.relayState, defaultRedirectUrl) IN
    IF ~isValidRedirectUrl(relayState, allowedRedirectHosts)
    THEN defaultRedirectUrl ELSE relayState

\* the handler up to its first await: everything before config.onAuth returns
PostAcs(r, delay, samlResponse, reqRelayState, eng) ==
    /\ CanStart(r)
    /\ now + delay <= MaxNow
    /\ now' = now + delay
    /\ LET session == cur
           storedState == IF session # 0 THEN sessions[session].samlLoginState
                          ELSE NoState
           arrived == [NoReq EXCEPT !.kind = "acs",
                          !.samlResponse = samlResponse,
                          !.reqRelayState = reqRelayState,
                          !.session = session,
                          !.hadState = storedState.present,
                          !.storedRelay = storedState.relayState,
                          !.elapsed = IF storedState.present
                                      THEN now' - storedState.timestamp ELSE 0]
       IN
       IF ~samlResponse THEN
           /\ eng = "none"
           /\ Respond(r, [arrived EXCEPT !.pc = "done",
                         !.status = 400, !.body = "Missing SAMLResponse"])
       ELSE IF CsrfRejected(storedState, now') THEN
           /\ eng = "none"
           /\ Respond(r, [arrived EXCEPT !.pc = "done",
                         !.status = 400, !.body = "SAML state expired or missing"])
       ELSE
           LET checked == [arrived EXCEPT !.csrfPassed = TRUE,
                              !.nonce = storedState.nonce,
                              !.relayState = AcsRelayState(storedState, reqRelayState),
                              !.eng = eng, !.calls = AcsCalls(eng)]
           IN
           /\ eng \in AcsEngineResults
           /\ IF AcsThrows(eng) THEN Respond(r, Failed(checked))
              ELSE
                  /\ reqs' = [reqs EXCEPT ![r] = [checked EXCEPT
                        !.pc = "onAuth",
                        !.nameId = "alice",
                        !.nameIdFormat = IF eng = "nameId and format"
                                         THEN "email" ELSE UNSPECIFIED]]
                  /\ UNCHANGED last
    /\ UNCHANGED <<cfgVars, nextNonce, sessions, cur, sideVars>>

\* config.onAuth settles: the handler runs on to its next await
\* (session.regenerate) or to its end
AcsOnAuthSettled(r, result) ==
    /\ reqs[r].kind = "acs" /\ reqs[r].pc = "onAuth"
    /\ LET rec == reqs[r]
           session == rec.session
           redirected == [rec EXCEPT !.pc = "done", !.user = result,
                             !.status = 302, !.body = "redirect",
                             !.location = rec.relayState]
       IN
       IF result = "throws" THEN
           /\ Respond(r, Failed(rec))
           /\ UNCHANGED sessions
       ELSE IF regenerateSession /\ session # 0 /\ sessionKind = "regen" THEN
           /\ reqs' = [reqs EXCEPT ![r] = [rec EXCEPT !.pc = "regenerate",
                         !.user = result,
                         !.calls = Append(rec.calls, "regenerate")]]
           /\ UNCHANGED <<sessions, last>>
       ELSE IF session # 0 THEN
           /\ sessions' = [sessions EXCEPT ![session] =
                 [@ EXCEPT !.user = result,
                           !.samlNameId = rec.nameId,
                           !.samlNameIdFormat = rec.nameIdFormat,
                           !.samlLoginState = NoState]]
           /\ Respond(r, [redirected EXCEPT
                            !.calls = Append(rec.calls, "write")])
       ELSE
           /\ Respond(r, redirected)
           /\ UNCHANGED sessions
    /\ UNCHANGED <<cfgVars, now, nextNonce, cur, sideVars>>

\* the callback handed to session.regenerate runs.  express-session has by
\* then destroyed the stored session and put a new Session object at
\* req.session (with or without an error); the handler's variable session
\* still names the object it read at the start of the request.
AcsRegenerated(r, err) ==
    /\ reqs[r].kind = "acs" /\ reqs[r].pc = "regenerate"
    /\ LET rec == reqs[r]
           session == rec.session
           fresh == Append(sessions, EmptySession)
       IN
       /\ cur' = Len(sessions) + 1
       /\ IF err THEN
              /\ sessions' = fresh
              /\ Respond(r, Failed(rec))
          ELSE
              \* Object.assign(session, savedState)
              /\ sessions' = [fresh EXCEPT ![session] =
                    [@ EXCEPT !.user = rec.user,
                              !.samlNameId = rec.nameId,
                              !.samlNameIdFormat = rec.nameIdFormat]]
              /\ Respond(r, [rec EXCEPT !.pc = "done",
                            !.status = 302, !.body = "redirect",
                            !.location = rec.relayState,
                            !.calls = Append(rec.calls, "write")])
    /\ UNCHANGED <<cfgVars, now, nextNonce, sideVars>>

\* ------------------------------------------------------------------------
\* GET /logout
\* ------------------------------------------------------------------------
\* const logoutRedirectUrl = config.logoutRedirectUrl || "/"
logoutRedirectUrl == <<"/">>

\* the redirect URL lasso_logout_build_response_msg leaves in msg_url
IdpSloUrl == <<"https", ":", "/", "/", "idp.example.org", "/", "slo", "?",
               "SAMLResponse=", "response">>

\* what config.getNameId(req) returns when it is configured
GetNameIdResults == {"returns nameId", "returns nothing"}

\* what config.onLogout(req) does
OnLogoutResults == {"returns", "throws"}

\* session object number session holds some field of the record
HoldsRecord(session) ==
    /\ session # 0
    /\ \/ sessions[session].user # Absent
       \/ sessions[session].samlNameId # Absent
       \/ sessions[session].samlNameIdFormat # Absent

\* the session object s with only session[sessionProperty] deleted
ClearRecord_UserOnly(s) ==
    [s EXCEPT !.user = Absent]

\* the session object s without its authenticated-principal record
ClearRecord(s) ==
    [s EXCEPT !.user = Absent, !.samlNameId = Absent,
              !.samlNameIdFormat = Absent]

\* nameId as /logout computes it
LogoutNameId(session) ==
    IF getNameId # Absent
    THEN IF getNameId = "returns nameId" THEN "alice" ELSE Absent
    ELSE IF session # 0 THEN sessions[session].samlNameId ELSE Absent

\* what happens to the Logout of a /logout request that has a nameId.  The
\* Logout class defines initRequest, buildRequestMsg, processRequestMsg,
\* validateRequest, buildResponseMsg, processResponseMsg and
\* getNextProviderId and no setNameId, so the handler's first call on it,
\* logout.setNameId(...), throws a TypeError.
LogoutEngineResults == {"setNameId throws"}

\* /logout without a nameId, after config.onLogout (if any) has returned
LogoutLocal(r, rec) ==
    /\ IF rec.session # 0
       THEN sessions' = [sessions EXCEPT ![rec.session].user = Absent]
       ELSE UNCHANGED sessions
    /\ Respond(r, [rec EXCEPT !.pc = "done", !.status = 302,
                     !.body = "redirect", !.location = logoutRedirectUrl,
                     !.calls = Append(rec.calls, "clear")])

\* the handler up to its first await or, if it has none, to its end
GetLogout(r, eng) ==
    /\ CanStart(r)
    /\ LET session == cur
           nameId == LogoutNameId(session)
           arrived == [NoReq EXCEPT !.kind = "logout", !.session = session,
                          !.nameId = nameId,
                          !.hadRecord = HoldsRecord(session)]
       IN
       IF nameId = Absent THEN
           /\ eng = "none"
           /\ IF onLogout
              THEN /\ reqs' = [reqs EXCEPT ![r] = [arrived EXCEPT
                                 !.pc = "onLogout", !.calls = <<"onLogout">>]]
                   /\ UNCHANGED <<sessions, last>>
              ELSE LogoutLocal(r, arrived)
       ELSE
           /\ eng \in LogoutEngineResults
           /\ Respond(r, Failed([arrived EXCEPT !.eng = eng,
                            !.calls = <<"new Logout", "setNameId">>]))
           /\ UNCHANGED sessions
    /\ UNCHANGED <<cfgVars, now, nextNonce, cur, sideVars>>

\* config.onLogout settles in a /logout that found no nameId
LogoutOnLogoutSettled(r, result) ==
    /\ reqs[r].kind = "logout" /\ reqs[r].pc = "onLogout"
    /\ IF result = "throws"
       THEN /\ Respond(r, Failed(reqs[r]))
            /\ UNCHANGED sessions
       ELSE LogoutLocal(r, reqs[r])
    /\ UNCHANGED <<cfgVars, now, nextNonce, cur, sideVars>>

\* ------------------------------------------------------------------------
\* POST /slo and GET /slo
\* ------------------------------------------------------------------------
\* what the engine does with the Logout of an /slo request that carries a
\* logout response, and of one that carries a logout request
SloResponseResults == {"processResponseMsg throws", "processed"}
SloRequestResults == {"processRequestMsg throws", "buildResponseMsg throws",
                      "msg_url", "no msg_url"}

\* the handler fails at its first call on the Logout
SloThrowsFirst(eng) ==
    eng \in {"processResponseMsg throws", "processRequestMsg throws"}

\* the handler clearing the session only once buildResponseMsg has returned
SloClearAndAnswer_ClearAfterBuild(r, rec) ==
    LET cleared == [rec EXCEPT !.pc = "done",
                       !.calls = Append(rec.calls, "clear")]
        built == [cleared EXCEPT !.calls = Append(cleared.calls,
                                                   "buildResponseMsg")]
        redirect(c, to) == [c EXCEPT !.status = 302, !.body = "redirect",
                                     !.location = to]
    IN
    /\ IF rec.session # 0 /\ rec.eng # "buildResponseMsg throws"
       THEN sessions' = [sessions EXCEPT
                            ![rec.session] = ClearRecord(sessions[rec.session])]
       ELSE UNCHANGED sessions
    /\ IF rec.samlResponse THEN Respond(r, redirect(cleared, logoutRedirectUrl))
       ELSE IF rec.eng = "buildResponseMsg throws" THEN Respond(r, Failed(built))
       ELSE IF rec.eng = "msg_url" THEN Respond(r, redirect(built, IdpSloUrl))
       ELSE IF rec.kind = "slo post"
            \* res.send of the auto-submitting form
            THEN Respond(r, [built EXCEPT !.status = 200, !.body = "form",
                               !.formAction = escapeHtml(<<>>)])
            \* res.redirect(result.responseUrl || logoutRedirectUrl)
            ELSE Respond(r, redirect(built, logoutRedirectUrl))

\* the handler from "Clear session" on, config.onLogout (if any) having
\* returned: the three deletes, then the answer
SloClearAndAnswer(r, rec) ==
    LET cleared == [rec EXCEPT !.pc = "done",
                       !.calls = Append(rec.calls, "clear")]
        built == [cleared EXCEPT !.calls = Append(cleared.calls,
                                                   "buildResponseMsg")]
        redirect(c, to) == [c EXCEPT !.status = 302, !.body = "redirect",
                                     !.location = to]
    IN
    /\ IF rec.session # 0
       THEN sessions' = [sessions EXCEPT
                            ![rec.session] = ClearRecord(sessions[rec.session])]
       ELSE UNCHANGED sessions
    /\ IF rec.samlResponse THEN Respond(r, redirect(cleared, logoutRedirectUrl))
       ELSE IF rec.eng = "buildResponseMsg throws" THEN Respond(r, Failed(built))
       ELSE IF rec.eng = "msg_url" THEN Respond(r, redirect(built, IdpSloUrl))
       ELSE IF rec.kind = "slo post"
            \* res.send of the auto-submitting form
            THEN Respond(r, [built EXCEPT !.status = 200, !.body = "form",
                               !.formAction = escapeHtml(<<>>)])
            \* res.redirect(result.responseUrl || logoutRedirectUrl)
            ELSE Respond(r, redirect(built, logoutRedirectUrl))

\* /slo taking every request for a protocol message
SloMalformed_Never(samlRequest, samlResponse) == FALSE

\* neither if (samlResponse) nor else if (samlRequest): the final else
SloMalformed(samlRequest, samlResponse) == ~samlResponse /\ ~samlRequest

\* either handler up to its first await or, if it has none, to its end;
\* kind is "slo post" or "slo get"
SloHandler(r, kind, samlRequest, samlResponse, eng) ==
    /\ CanStart(r)
    /\ LET session == cur
           arrived == [NoReq EXCEPT !.kind = kind, !.session = session,
                          !.samlRequest = samlRequest,
                          !.samlResponse = samlResponse,
                          !.hadRecord = HoldsRecord(session)]
           first == IF samlResponse THEN "processResponseMsg"
                    ELSE "processRequestMsg"
           processed == [arrived EXCEPT !.eng = eng,
                            !.calls = <<"new Logout", first>>]
       IN
       IF SloMalformed(samlRequest, samlResponse) THEN
           /\ eng = "none"
           /\ Respond(r, [arrived EXCEPT !.pc = "done", !.status = 400,
                            !.body = "Missing SAMLRequest or SAMLResponse"])
           /\ UNCHANGED sessions
       ELSE
           /\ eng \in (IF samlResponse THEN SloResponseResults
                       ELSE SloRequestResults)
           /\ IF SloThrowsFirst(eng) THEN
                  /\ Respond(r, Failed(processed))
                  /\ UNCHANGED sessions
              ELSE IF onLogout THEN
                  /\ reqs' = [reqs EXCEPT ![r] = [processed EXCEPT
                                !.pc = "onLogout",
                                !.calls = Append(processed.calls, "onLogout")]]
                  /\ UNCHANGED <<sessions, last>>
              ELSE SloClearAndAnswer(r, processed)
    /\ UNCHANGED <<cfgVars, now, nextNonce, cur, sideVars>>

PostSlo(r, samlRequest, samlResponse, eng) ==
    SloHandler(r, "slo post", samlRequest, samlResponse, eng)

GetSlo(r, samlRequest, samlResponse, eng) ==
    SloHandler(r, "slo get", samlRequest, samlResponse, eng)

\* config.onLogout settles in an /slo handler
SloOnLogoutSettled(r, result) ==
    /\ reqs[r].kind \in {"slo post", "slo get"} /\ reqs[r].pc = "onLogout"
    /\ IF result = "throws"
       THEN /\ Respond(r, Failed(reqs[r]))
            /\ UNCHANGED sessions
       ELSE SloClearAndAnswer(r, reqs[r])
    /\ UNCHANGED <<cfgVars, now, nextNonce, cur, sideVars>>

\* ------------------------------------------------------------------------
\* The engine's lifecycle (src/lasso.cc: Init, Shutdown, IsInitialized)
\* ------------------------------------------------------------------------
\* what lasso_init() and lasso_shutdown() return: 0, or an error code
ReturnCodes == {0, -1}

\* no engine call made yet
NoEngineCalls == [lasso_init |-> 0, initOk |-> 0,
                  lasso_shutdown |-> 0, shutdownOk |-> 0]

\* no call of the binding made yet
NoApi == [op |-> "none", result |-> "none"]

\* Init() calling lasso_init whatever the flag says
InitReturnsEarly_Never == FALSE

\* Init(): if (IsLassoInitialized()) return true
InitReturnsEarly == g_lasso_initialized

\* Shutdown(): if (!IsLassoInitialized()) return true
ShutdownReturnsEarly == ~g_lasso_initialized

\* the effect of init() on the engine's variables; rc is what lasso_init
\* returns if it is called
InitEffect(rc) ==
    IF InitReturnsEarly THEN
        /\ api' = [op |-> "init", result |-> "true"]
        /\ UNCHANGED <<g_lasso_initialized, engine>>
    ELSE IF rc # 0 THEN
        \* throw LassoError(env, rc, "lasso_init")
        /\ engine' = [engine EXCEPT !.lasso_init = @ + 1]
        /\ api' = [op |-> "init", result |-> "throws"]
        /\ UNCHANGED g_lasso_initialized
    ELSE
        /\ engine' = [engine EXCEPT !.lasso_init = @ + 1, !.initOk = @ + 1]
        /\ g_lasso_initialized' = TRUE
        /\ api' = [op |-> "init", result |-> "true"]

\* engine calls made so far
EngineCallsMade == engine.lasso_init + engine.lasso_shutdown

\* lasso.init()
LassoInit(rc) ==
    /\ EngineCallsMade < MaxEngineCalls
    /\ InitEffect(rc)
    /\ UNCHANGED <<urlVars, mwVars, initVars, libVars>>

\* lasso.shutdown()
LassoShutdown(rc) ==
    /\ EngineCallsMade < MaxEngineCalls
    /\ IF ShutdownReturnsEarly THEN
           /\ api' = [op |-> "shutdown", result |-> "true"]
           /\ UNCHANGED <<g_lasso_initialized, engine>>
       ELSE IF rc # 0 THEN
           /\ engine' = [engine EXCEPT !.lasso_shutdown = @ + 1]
           /\ api' = [op |-> "shutdown", result |-> "throws"]
           /\ UNCHANGED g_lasso_initialized
       ELSE
           /\ engine' = [engine EXCEPT !.lasso_shutdown = @ + 1,
                                       !.shutdownOk = @ + 1]
           /\ g_lasso_initialized' = FALSE
           /\ api' = [op |-> "shutdown", result |-> "true"]
    /\ UNCHANGED <<urlVars, mwVars, initVars, libVars>>

\* lasso.isInitialized()
LassoIsInitialized ==
    /\ api' = [op |-> "isInitialized",
               result |-> IF g_lasso_initialized THEN "true" ELSE "false"]
    /\ UNCHANGED <<g_lasso_initialized, engine, urlVars, mwVars, initVars, libVars>>

\* ------------------------------------------------------------------------
\* Lazy initialization (initServer, ensureInit, initMiddleware)
\* ------------------------------------------------------------------------
NoInitCalls == [initServer |-> 0, fromBuffers |-> 0,
                addProviderFromBuffer |-> 0]

\* how initServer goes on once the four readFileOrString promises settled
InitServerOutcomes == {"readFileOrString rejects", "fromBuffers throws",
                       "no idpEntityId", "addProviderFromBuffer throws",
                       "provider added"}

\* ensureInit taking the server variable for its memo
EnsureInitStarts_ServerUnset == server = "null"

\* ensureInit: if (!initPromise)
EnsureInitStarts == initPromise = "null"

\* await initPromise throwing whenever the server variable is not set
EnsureInitThrows_ServerUnset == server = "null"

\* ensureInit: await initPromise throws
EnsureInitThrows == initPromise = "rejected"

\* requests reach the router in the order of their numbers
InitCanStart(r) ==
    /\ initReqs[r] = "none"
    /\ IF r = 1 THEN TRUE ELSE initReqs[r - 1] # "none"

\* a request enters initMiddleware: ensureInit runs up to await initPromise,
\* and with it, for the first request, initServer up to its await
InitMiddleware(r, rc) ==
    /\ InitCanStart(r)
    /\ initReqs' = [initReqs EXCEPT ![r] = "awaiting"]
    /\ IF EnsureInitStarts THEN
           /\ initCalls' = [initCalls EXCEPT !.initServer = @ + 1]
           /\ IF server # "null" THEN
                  \* if (server) {return;}
                  /\ initPromise' = "fulfilled"
                  /\ UNCHANGED engVars
              ELSE IF ~g_lasso_initialized THEN
                  \* if (!lasso.isInitialized()) { lasso.init(); }
                  /\ InitEffect(rc)
                  /\ initPromise' = IF rc # 0 THEN "rejected" ELSE "pending"
              ELSE
                  /\ initPromise' = "pending"
                  /\ UNCHANGED engVars
       ELSE UNCHANGED <<initCalls, initPromise, engVars>>
    /\ UNCHANGED <<server, urlVars, mwVars, libVars>>

\* initServer resumes after await Promise.all([...]) and runs to its end
InitServerResumes(outcome) ==
    /\ initPromise = "pending"
    /\ CASE outcome = "readFileOrString rejects" ->
              /\ initPromise' = "rejected"
              /\ UNCHANGED <<server, initCalls>>
         [] outcome = "fromBuffers throws" ->
              /\ initCalls' = [initCalls EXCEPT !.fromBuffers = @ + 1]
              /\ initPromise' = "rejected"
              /\ UNCHANGED server
         [] outcome = "no idpEntityId" ->
              /\ initCalls' = [initCalls EXCEPT !.fromBuffers = @ + 1]
              /\ server' = "no provider"
              /\ initPromise' = "rejected"
         [] outcome = "addProviderFromBuffer throws" ->
              /\ initCalls' = [initCalls EXCEPT !.fromBuffers = @ + 1,
                                  !.addProviderFromBuffer = @ + 1]
              /\ server' = "no provider"
              /\ initPromise' = "rejected"
         [] OTHER ->
              /\ initCalls' = [initCalls EXCEPT !.fromBuffers = @ + 1,
                                  !.addProviderFromBuffer = @ + 1]
              /\ server' = "provider added"
              /\ initPromise' = "fulfilled"
    /\ UNCHANGED <<initReqs, urlVars, mwVars, engVars, libVars>>

\* initMiddleware resumes after await ensureInit(): next() or next(err)
InitMiddlewareResumes(r) ==
    /\ initReqs[r] = "awaiting"
    /\ initPromise \in {"fulfilled", "rejected"}
    /\ initReqs' = [initReqs EXCEPT ![r] =
                       IF EnsureInitThrows THEN "init error" ELSE "handler"]
    /\ UNCHANGED <<server, initPromise, initCalls, urlVars, mwVars, engVars, libVars>>

\* the route handler's first statements: if (!server) throw, then
\* new lasso.Login(server) or new lasso.Logout(server)
HandlerStarts(r) ==
    /\ initReqs[r] = "handler"
    /\ initReqs' = [initReqs EXCEPT ![r] =
                       IF server = "null" THEN "Server not initialized"
                       ELSE "transaction on " \o server]
    /\ UNCHANGED <<server, initPromise, initCalls, urlVars, mwVars, engVars, libVars>>

\* ------------------------------------------------------------------------
\* Specification Spec: a browser with one session cookie sends up to MaxReq
\* requests to one createSamlSp router; handlers interleave at their awaits
\* ------------------------------------------------------------------------
\* the redirect settings an application configures: allowedRedirectHosts
\* and defaultRedirectUrl (the latter possibly an absolute URL of its own)
RedirectConfigs == {<<Absent, <<"/">>>>,
                    <<<<HostExample>>, <<"/">>>>,
                    <<Absent, <<"https", ":", "/", "/", "app.example.org">>>>}

\* the session settings: what req.session is, and regenerateSession
SessionConfigs == {<<"none", TRUE>>, <<"plain", TRUE>>, <<"plain", FALSE>>,
                   <<"regen", TRUE>>, <<"regen", FALSE>>}

\* the middleware's variables before any request, under one configuration
MwInit(hostList, maxAge, regen, defaultUrl, kind) ==
    /\ allowedRedirectHosts = hostList
    /\ stateMaxAge = maxAge
    /\ regenerateSession = regen
    /\ defaultRedirectUrl = defaultUrl
    /\ sessionKind = kind
    /\ now = 0
    /\ nextNonce = 1
    /\ sessions = IF kind = "none" THEN <<>> ELSE <<EmptySession>>
    /\ cur = IF kind = "none" THEN 0 ELSE 1
    /\ reqs = [r \in Requests |-> NoReq]
    /\ last = NoReq

\* the logout settings: whether config.onLogout is configured, and
\* config.getNameId (Absent when it is not configured)
LogoutInit(onLogoutSet, getNameIdCfg) ==
    /\ onLogout = onLogoutSet
    /\ getNameId = getNameIdCfg

\* the engine and the server once the first request has been served:
\* lasso.init() has run and initServer has completed
ServerReady ==
    /\ g_lasso_initialized = TRUE
    /\ engine = [NoEngineCalls EXCEPT !.lasso_init = 1, !.initOk = 1]
    /\ api = [op |-> "init", result |-> "true"]
    /\ server = "provider added"
    /\ initPromise = "fulfilled"
    /\ initCalls = [initServer |-> 1, fromBuffers |-> 1,
                    addProviderFromBuffer |-> 1]
    /\ initReqs = [r \in Requests |-> "none"]

\* escapeHtml while nobody calls it
EscIdle == escArg = <<>> /\ escaped = <<>> /\ passes = 0

\* no Login transaction exists
TxIdle == heap = <<>> /\ profile = Absent /\ wrappers = <<>> /\ got = Absent

\* no Server is studied
SrvIdle == lassoServer = Absent /\ srvResult = Absent

\* the binding's classes while none of their objects exists
\* requireAuth while no request reaches it
GateIdle == gateSession = Absent /\ originalUrl = <<>> /\ gate = Absent

\* no wrapper has been created
LifeIdle == jsObjects = <<>> /\ natives = <<>>

LibIdle == EscIdle /\ TxIdle /\ SrvIdle /\ GateIdle /\ LifeIdle

\* isValidRedirectUrl's variables while the middleware runs
UrlOnly ==
    /\ url = <<>>
    /\ hosts = Absent
    /\ verdict = FALSE
    /\ urlPc = "idle"

UrlIdle == UrlOnly /\ LibIdle

Init ==
    /\ \E rc \in RedirectConfigs, sc \in SessionConfigs :
          MwInit(rc[1], StateMaxAgeDefault, sc[2], rc[2], sc[1])
    /\ LogoutInit(FALSE, Absent)
    /\ UrlIdle
    /\ ServerReady

Next ==
    \/ \E r \in Requests, delay \in Delays, returnTo \in ReturnTos,
          eng \in LoginEngineResults :
          GetLogin(r, delay, returnTo, eng)
    \/ \E r \in Requests, delay \in Delays, samlResponse \in BOOLEAN,
          rs \in RelayStates, eng \in AcsEngineResults \cup {"none"} :
          PostAcs(r, delay, samlResponse, rs, eng)
    \/ \E r \in Requests, result \in OnAuthResults : AcsOnAuthSettled(r, result)
    \/ \E r \in Requests, err \in BOOLEAN : AcsRegenerated(r, err)

Spec == Init /\ [][Next]_vars

\* ------------------------------------------------------------------------
\* Specification SpecUrl: isValidRedirectUrl applied to every target of at
\* most MaxUrlLen tokens under every allow-list configuration
\* ------------------------------------------------------------------------
UrlTokens == {"/", ":", "https", "javascript", "example.com",
              "example.com.evil.com", "8443"}

RECURSIVE SeqsUpTo(_, _)
SeqsUpTo(S, n) ==
    IF n = 0 THEN {<<>>}
    ELSE LET shorter == SeqsUpTo(S, n - 1) IN
         shorter \cup {Append(s, t) : s \in shorter, t \in S}

InitUrl ==
    /\ url \in SeqsUpTo(UrlTokens, MaxUrlLen)
    /\ hosts \in AllowLists
    /\ verdict = FALSE
    /\ urlPc = "call"
    /\ MwInit(Absent, StateMaxAgeDefault, TRUE, <<"/">>, "none")
    /\ LogoutInit(FALSE, Absent)
    /\ ServerReady
    /\ LibIdle

Validate ==
    /\ urlPc = "call"
    /\ verdict' = isValidRedirectUrl(url, hosts)
    /\ urlPc' = "return"
    /\ UNCHANGED <<url, hosts, mwVars, engVars, initVars, libVars>>

NextUrl == Validate

SpecUrl == InitUrl /\ [][NextUrl]_vars


\* ------------------------------------------------------------------------
\* Specification SpecAge: the middleware under several values of stateMaxAge
\* ------------------------------------------------------------------------
InitAge ==
    /\ \E maxAge \in {StateMaxAgeDefault, 150000} :
          MwInit(Absent, maxAge, TRUE, <<"/">>, "regen")
    /\ LogoutInit(FALSE, Absent)
    /\ UrlIdle
    /\ ServerReady

SpecAge == InitAge /\ [][Next]_vars

\* ------------------------------------------------------------------------
\* Specification SpecLogout: the same browser and router, the logout
\* endpoints included
\* ------------------------------------------------------------------------
\* the settings an application configures: what req.session is,
\* config.onLogout and config.getNameId
LogoutConfigs == {<<"plain", FALSE, Absent>>,
                  <<"plain", TRUE, Absent>>,
                  <<"regen", TRUE, Absent>>,
                  <<"none", TRUE, "returns nameId">>,
                  <<"plain", FALSE, "returns nothing">>}

\* a stateMaxAge of ten minutes: no CSRF state expires before MaxNow
StateMaxAgeLong == 600000

InitLogout ==
    /\ \E lc \in LogoutConfigs :
          /\ MwInit(Absent, StateMaxAgeLong, TRUE, <<"/">>, lc[1])
          /\ LogoutInit(lc[2], lc[3])
    /\ UrlIdle
    /\ ServerReady

\* the engine results an /slo (or /logout) request may meet
SloEngineResults ==
    SloResponseResults \cup SloRequestResults \cup {"none"}

NextLogout ==
    \/ Next
    \/ \E r \in Requests, eng \in LogoutEngineResults \cup {"none"} :
          GetLogout(r, eng)
    \/ \E r \in Requests, result \in OnLogoutResults :
          LogoutOnLogoutSettled(r, result)
    \/ \E r \in Requests, samlRequest \in BOOLEAN, samlResponse \in BOOLEAN,
          eng \in SloEngineResults :
          PostSlo(r, samlRequest, samlResponse, eng)
    \/ \E r \in Requests, samlRequest \in BOOLEAN, samlResponse \in BOOLEAN,
          eng \in SloEngineResults :
          GetSlo(r, samlRequest, samlResponse, eng)
    \/ \E r \in Requests, result \in OnLogoutResults :
          SloOnLogoutSettled(r, result)

SpecLogout == InitLogout /\ [][NextLogout]_vars

\* ------------------------------------------------------------------------
\* Specification SpecEngine: an application calls init(), shutdown() and
\* isInitialized() in any order
\* ------------------------------------------------------------------------
\* the middleware before its first request
MwIdle ==
    /\ MwInit(Absent, StateMaxAgeDefault, TRUE, <<"/">>, "none")
    /\ LogoutInit(FALSE, Absent)
    /\ UrlIdle

InitEngine ==
    /\ g_lasso_initialized = FALSE
    /\ engine = NoEngineCalls
    /\ api = NoApi
    /\ server = "null"
    /\ initPromise = "null"
    /\ initCalls = NoInitCalls
    /\ initReqs = [r \in Requests |-> "none"]
    /\ MwIdle

NextEngine ==
    \/ \E rc \in ReturnCodes : LassoInit(rc)
    \/ \E rc \in ReturnCodes : LassoShutdown(rc)
    \/ LassoIsInitialized

SpecEngine == InitEngine /\ [][NextEngine]_vars

\* ------------------------------------------------------------------------
\* Specification SpecInit: the first requests reach a createSamlSp router
\* whose server is not initialized yet; the application may or may not
\* have called lasso.init() itself
\* ------------------------------------------------------------------------
InitInit ==
    /\ \/ /\ g_lasso_initialized = FALSE
          /\ engine = NoEngineCalls
          /\ api = NoApi
       \/ /\ g_lasso_initialized = TRUE
          /\ engine = [NoEngineCalls EXCEPT !.lasso_init = 1, !.initOk = 1]
          /\ api = [op |-> "init", result |-> "true"]
    /\ server = "null"
    /\ initPromise = "null"
    /\ initCalls = NoInitCalls
    /\ initReqs = [r \in Requests |-> "none"]
    /\ MwIdle

NextInit ==
    \/ \E r \in Requests, rc \in ReturnCodes : InitMiddleware(r, rc)
    \/ \E outcome \in InitServerOutcomes : InitServerResumes(outcome)
    \/ \E r \in Requests : InitMiddlewareResumes(r)
    \/ \E r \in Requests : HandlerStarts(r)

SpecInit == InitInit /\ [][NextInit]_vars

\* ------------------------------------------------------------------------
\* escapeHtml on its own: every short string, escaped once and again
\* ------------------------------------------------------------------------
MaxStrLen == 3
MaxPasses == 2

\* the five special characters, a letter run and the entity terminator
EscChars == {"&", "<", ">", "\"", "'", "script", ";"}

\* everything but escapeHtml is at rest
EscRest ==
    /\ MwInit(Absent, StateMaxAgeDefault, TRUE, <<"/">>, "none")
    /\ LogoutInit(FALSE, Absent)
    /\ ServerReady
    /\ UrlOnly

InitEscape ==
    /\ escArg \in SeqsUpTo(EscChars, MaxStrLen)
    /\ escaped = <<>>
    /\ passes = 0
    /\ TxIdle /\ SrvIdle /\ GateIdle /\ LifeIdle
    /\ EscRest

\* escapeHtml(str), then escapeHtml of what it returned
Escape ==
    /\ passes < MaxPasses
    /\ escaped' = escapeHtml(IF passes = 0 THEN escArg ELSE escaped)
    /\ passes' = passes + 1
    /\ UNCHANGED <<escArg, txVars, srvVars, gateVars, lifeVars, urlVars, mwVars,
                   engVars, initVars>>

NextEscape == Escape

SpecEscape == InitEscape /\ [][NextEscape]_vars

\* ------------------------------------------------------------------------
\* Server: the providers of a LassoServer (src/server.cc)
\* ------------------------------------------------------------------------
\* entity ids, as arguments and inside metadata
EntityIds == {"https://idp.example.com", "https://idp2.example.com",
              "https://other.example.com"}

\* a metadata document is known by the entityID of its EntityDescriptor;
\* Absent is a document the engine cannot parse
Metadatas == EntityIds \cup {Absent}

\* env.Null()
NullProvider == [found |-> FALSE, entityId |-> Absent]

\* lasso_server_add_provider_from_buffer(server_, role, metadata, ...):
\* the engine is handed the metadata alone and files the provider under
\* the entity id it reads there
AddToEngine(providerId, metadata) == metadata

\* Server.fromBuffers(...) has returned a server without providers
ServerNew ==
    /\ lassoServer = [ProviderID |-> "https://sp.example.com", providers |-> {}]
    /\ srvResult = [call |-> "fromBuffers", providerId |-> Absent,
                    threw |-> FALSE, value |-> NullProvider, registered |-> {}]

\* server.addProviderFromBuffer(providerId, metadata); registered collects
\* the providerId arguments of the calls that returned
AddProviderFromBuffer(providerId, metadata) ==
    LET rc == IF metadata = Absent THEN -1 ELSE 0 IN
    /\ lassoServer' =
          IF rc = 0
          THEN [lassoServer EXCEPT
                  !.providers = @ \cup {AddToEngine(providerId, metadata)}]
          ELSE lassoServer
    /\ srvResult' = [call |-> "addProviderFromBuffer",
                     providerId |-> providerId,
                     threw |-> rc # 0,
                     value |-> NullProvider,
                     registered |-> IF rc = 0
                                    THEN srvResult.registered \cup {providerId}
                                    ELSE srvResult.registered]
    /\ UNCHANGED <<escVars, txVars, gateVars, lifeVars, urlVars, mwVars,
                   engVars, initVars>>

\* server.getProvider(providerId)
GetProvider(providerId) ==
    /\ srvResult' = [srvResult EXCEPT
            !.call = "getProvider",
            !.providerId = providerId,
            !.threw = FALSE,
            !.value = IF providerId \in lassoServer.providers
                      THEN [found |-> TRUE, entityId |-> providerId]
                      ELSE NullProvider]
    /\ UNCHANGED <<lassoServer, escVars, txVars, gateVars, lifeVars, urlVars,
                   mwVars, engVars,
                   initVars>>

InitServer ==
    /\ ServerNew
    /\ EscIdle /\ TxIdle /\ GateIdle /\ LifeIdle
    /\ EscRest

NextServer ==
    \/ \E providerId \in EntityIds, metadata \in Metadatas :
          AddProviderFromBuffer(providerId, metadata)
    \/ \E providerId \in EntityIds : GetProvider(providerId)

SpecServer == InitServer /\ [][NextServer]_vars

\* ------------------------------------------------------------------------
\* A Login or Logout transaction and the wrappers its accessors hand out
\* (Login, Logout, Identity::NewInstance, Session::NewInstance)
\* ------------------------------------------------------------------------
MaxObjects == 5
MaxWrappers == 2
MaxOps == 3

\* nullptr
Null == 0

Addresses == 1..MaxObjects

NoObject == [live |-> FALSE, kind |-> "none", content |-> 0]

\* profile->nameIdentifier == NULL
NoNameIdentifier == [set |-> FALSE, content |-> "", Format |-> ""]

\* what the accessor last read returned
NoRead == [call |-> "none", null |-> TRUE, threw |-> FALSE, text |-> "",
           accepted |-> FALSE]

\* lasso_login_new(server) / lasso_logout_new(server)
NewProfile == [alive |-> TRUE, identity |-> Null, session |-> Null,
               nameIdentifier |-> NoNameIdentifier,
               processed |-> FALSE, accepted |-> FALSE, ops |-> 0]

Free(h) == {a \in Addresses : ~h[a].live}

\* the allocator hands out a free address, a freed one included
malloc(h) == CHOOSE a \in Free(h) : \A b \in Free(h) : a <= b

NewObject(h, a, kind, content) ==
    [h EXCEPT ![a] = [live |-> TRUE, kind |-> kind, content |-> content]]

\* lasso_identity_destroy / lasso_session_destroy / g_object_unref
Destroy(h, a) == IF a = Null THEN h ELSE [h EXCEPT ![a].live = FALSE]

\* the engine's verdicts on a dump and on its restoration
DumpOutcomes == BOOLEAN \X BOOLEAN

NameIdArgs == {"alice"}
FormatArgs == {"unspecified", "emailAddress"}

\* what accepted SSO leaves in profile->nameIdentifier
AssertedNameId == [set |-> TRUE, content |-> "user@idp",
                   Format |-> "emailAddress"]

Read(call, null, threw, text) ==
    [call |-> call, null |-> null, threw |-> threw, text |-> text,
     accepted |-> profile.accepted]

TxRest == <<escVars, srvVars, gateVars, lifeVars, urlVars, mwVars, engVars,
           initVars>>

\* login.processResponseMsg(message)
ProcessResponseMsg(rc) ==
    /\ profile.alive /\ profile.ops < MaxOps
    /\ profile' = [profile EXCEPT !.processed = @ \/ rc = 0,
                                  !.ops = @ + 1]
    /\ UNCHANGED <<heap, wrappers, got, TxRest>>

\* login.acceptSso(): on success the engine files the assertion in the
\* profile's session and the federation in its identity, creating them
\* when the profile has none, and records the name identifier
AcceptSso(rc) ==
    /\ profile.alive /\ profile.ops < MaxOps
    /\ IF rc = 0 /\ profile.processed
       THEN /\ Cardinality(Free(heap)) >= 2
            /\ LET n  == profile.ops + 1
                   i  == IF profile.identity = Null THEN malloc(heap)
                         ELSE profile.identity
                   h1 == NewObject(heap, i, "identity", n)
                   s  == IF profile.session = Null THEN malloc(h1)
                         ELSE profile.session
               IN  /\ heap' = NewObject(h1, s, "session", n)
                   /\ profile' = [profile EXCEPT
                                    !.identity = i, !.session = s,
                                    !.nameIdentifier = AssertedNameId,
                                    !.accepted = TRUE, !.ops = n]
       ELSE /\ profile' = [profile EXCEPT !.ops = @ + 1]
            /\ UNCHANGED heap
    /\ UNCHANGED <<wrappers, got, TxRest>>

\* login.setNameId(nameId, format)
SetNameId(nameId, format) ==
    /\ profile.alive /\ profile.ops < MaxOps
    /\ profile' = [profile EXCEPT
            !.nameIdentifier = [set |-> TRUE, content |-> nameId,
                                Format |-> format],
            !.ops = @ + 1]
    /\ UNCHANGED <<heap, wrappers, got, TxRest>>

\* the pointer Identity::NewInstance keeps: the restored copy
KeptPointer_Internal(identity, newIdentity) == identity
KeptPointer(identity, newIdentity) == newIdentity

\* login.identity / logout.identity (Identity::NewInstance)
GetIdentity(dumped, restored) ==
    /\ profile.alive /\ Len(wrappers) < MaxWrappers
    /\ IF profile.identity = Null
       THEN /\ got' = Read("identity", TRUE, FALSE, "")
            /\ UNCHANGED <<heap, wrappers>>
       ELSE /\ Cardinality(Free(heap)) >= 2
            /\ LET a1 == malloc(heap)
                   h1 == NewObject(heap, a1, "identity", 0)
                   a2 == malloc(h1)
                   h2 == NewObject(h1, a2, "identity",
                                   heap[profile.identity].content)
               IN  CASE ~dumped ->
                          /\ heap' = h1
                          /\ wrappers' = Append(wrappers,
                                [kind |-> "identity", ptr |-> a1,
                                 owns |-> TRUE, destroyed |-> FALSE,
                                 content |-> 0])
                          /\ got' = Read("identity", FALSE, FALSE, "")
                    [] dumped /\ restored ->
                          /\ heap' = Destroy(h2, a1)
                          /\ wrappers' = Append(wrappers,
                                [kind |-> "identity",
                                 ptr |-> KeptPointer(profile.identity, a2),
                                 owns |-> TRUE, destroyed |-> FALSE,
                                 content |-> heap[profile.identity].content])
                          /\ got' = Read("identity", FALSE, FALSE, "")
                    [] dumped /\ ~restored ->
                          /\ got' = Read("identity", TRUE, TRUE, "")
                          /\ UNCHANGED <<heap, wrappers>>
    /\ UNCHANGED <<profile, TxRest>>

\* login.session / logout.session (Session::NewInstance): the session made
\* by the constructor is overwritten without being destroyed, and a failed
\* restoration leaves the wrapper with a null session
GetSession(dumped, restored) ==
    /\ profile.alive /\ Len(wrappers) < MaxWrappers
    /\ IF profile.session = Null
       THEN /\ got' = Read("session", TRUE, FALSE, "")
            /\ UNCHANGED <<heap, wrappers>>
       ELSE /\ Cardinality(Free(heap)) >= 2
            /\ LET a1 == malloc(heap)
                   h1 == NewObject(heap, a1, "session", 0)
                   a2 == malloc(h1)
                   h2 == NewObject(h1, a2, "session",
                                   heap[profile.session].content)
               IN  CASE ~dumped ->
                          /\ heap' = h1
                          /\ wrappers' = Append(wrappers,
                                [kind |-> "session", ptr |-> a1,
                                 owns |-> TRUE, destroyed |-> FALSE,
                                 content |-> 0])
                    [] dumped /\ restored ->
                          /\ heap' = h2
                          /\ wrappers' = Append(wrappers,
                                [kind |-> "session", ptr |-> a2,
                                 owns |-> TRUE, destroyed |-> FALSE,
                                 content |-> heap[profile.session].content])
                    [] dumped /\ ~restored ->
                          /\ heap' = h1
                          /\ wrappers' = Append(wrappers,
                                [kind |-> "session", ptr |-> Null,
                                 owns |-> TRUE, destroyed |-> FALSE,
                                 content |-> 0])
            /\ got' = Read("session", FALSE, FALSE, "")
    /\ UNCHANGED <<profile, TxRest>>

\* login.identity = value, login.session = value: null destroys the
\* profile's object, a wrapper has its object dumped and restored into the
\* profile
SetIdentity(value) ==
    /\ profile.alive /\ profile.ops < MaxOps
    /\ IF value = Null
       THEN /\ heap' = Destroy(heap, profile.identity)
            /\ profile' = [profile EXCEPT !.identity = Null, !.ops = @ + 1]
       ELSE /\ wrappers[value].kind = "identity"
            /\ ~wrappers[value].destroyed
            /\ Free(heap) # {}
            /\ IF wrappers[value].ptr = Null
               THEN /\ profile' = [profile EXCEPT !.ops = @ + 1]
                    /\ UNCHANGED heap
               ELSE LET a == malloc(heap) IN
                    /\ heap' = Destroy(
                          NewObject(heap, a, "identity",
                                    heap[wrappers[value].ptr].content),
                          profile.identity)
                    /\ profile' = [profile EXCEPT !.identity = a,
                                                  !.ops = @ + 1]
    /\ UNCHANGED <<wrappers, got, TxRest>>

SetSession(value) ==
    /\ profile.alive /\ profile.ops < MaxOps
    /\ IF value = Null
       THEN /\ heap' = Destroy(heap, profile.session)
            /\ profile' = [profile EXCEPT !.session = Null, !.ops = @ + 1]
       ELSE /\ wrappers[value].kind = "session"
            /\ ~wrappers[value].destroyed
            /\ Free(heap) # {}
            /\ IF wrappers[value].ptr = Null
               THEN /\ profile' = [profile EXCEPT !.ops = @ + 1]
                    /\ UNCHANGED heap
               ELSE LET a == malloc(heap) IN
                    /\ heap' = Destroy(
                          NewObject(heap, a, "session",
                                    heap[wrappers[value].ptr].content),
                          profile.session)
                    /\ profile' = [profile EXCEPT !.session = a,
                                                  !.ops = @ + 1]
    /\ UNCHANGED <<wrappers, got, TxRest>>

\* login.nameId
GetNameId ==
    /\ profile.alive
    /\ got' = IF ~profile.nameIdentifier.set
              THEN Read("nameId", TRUE, FALSE, "")
              ELSE Read("nameId", FALSE, FALSE,
                        profile.nameIdentifier.content)
    /\ UNCHANGED <<heap, profile, wrappers, TxRest>>

\* login.nameIdFormat
GetNameIdFormat ==
    /\ profile.alive
    /\ got' = IF ~profile.nameIdentifier.set
              THEN Read("nameIdFormat", TRUE, FALSE, "")
              ELSE Read("nameIdFormat", FALSE, FALSE,
                        profile.nameIdentifier.Format)
    /\ UNCHANGED <<heap, profile, wrappers, TxRest>>

\* ~Login / ~Logout: the engine releases the profile with its identity
\* and its session
TransactionDestroyed ==
    /\ profile.alive
    /\ heap' = Destroy(Destroy(heap, profile.identity), profile.session)
    /\ profile' = [profile EXCEPT !.alive = FALSE, !.identity = Null,
                                  !.session = Null]
    /\ UNCHANGED <<wrappers, got, TxRest>>

\* ~Identity / ~Session
WrapperDestroyed(w) ==
    /\ ~wrappers[w].destroyed
    /\ heap' = IF wrappers[w].owns THEN Destroy(heap, wrappers[w].ptr)
               ELSE heap
    /\ wrappers' = [wrappers EXCEPT ![w].destroyed = TRUE]
    /\ UNCHANGED <<profile, got, TxRest>>

InitTransaction ==
    /\ heap = [a \in Addresses |-> NoObject]
    /\ profile = NewProfile
    /\ wrappers = <<>>
    /\ got = NoRead
    /\ EscIdle /\ SrvIdle /\ GateIdle /\ LifeIdle
    /\ EscRest

NextTransaction ==
    \/ \E rc \in ReturnCodes : ProcessResponseMsg(rc)
    \/ \E rc \in ReturnCodes : AcceptSso(rc)
    \/ \E nameId \in NameIdArgs, format \in FormatArgs :
          SetNameId(nameId, format)
    \/ \E o \in DumpOutcomes : GetIdentity(o[1], o[2])
    \/ \E o \in DumpOutcomes : GetSession(o[1], o[2])
    \/ \E value \in {Null} \cup DOMAIN wrappers : SetIdentity(value)
    \/ \E value \in {Null} \cup DOMAIN wrappers : SetSession(value)
    \/ GetNameId
    \/ GetNameIdFormat
    \/ TransactionDestroyed
    \/ \E w \in DOMAIN wrappers : WrapperDestroyed(w)

SpecTransaction == InitTransaction /\ [][NextTransaction]_vars

\* ------------------------------------------------------------------------
\* GET /login under every directive the engine can return
\* ------------------------------------------------------------------------
NextLoginBinding ==
    \E r \in Requests, delay \in Delays, returnTo \in ReturnTos,
       eng \in LoginDirectives :
        GetLogin(r, delay, returnTo, eng)

SpecLoginBinding == Init /\ [][NextLoginBinding]_vars

\* ------------------------------------------------------------------------
\* requireAuth(options): the middleware it returns, on one request
\* ------------------------------------------------------------------------
MaxPathLen == 3

\* options?.loginUrl || "/saml/login"
loginUrl == <<"/", "saml", "/", "login">>

\* req.session: none, or one whose sessionProperty entry is undefined, the
\* empty string or a user object
GateSessions ==
    {[present |-> FALSE, user |-> Absent]}
    \cup {[present |-> TRUE, user |-> u] : u \in {Absent, "", "user1"}}

\* the characters of a request URL
PathTokens == {"/", "?", "=", "&", "%", "protected", "2F"}

\* req.originalUrl begins with a slash
OriginalUrls ==
    {u \in SeqsUpTo(PathTokens, MaxPathLen) : u # <<>> /\ Head(u) = "/"}

\* session && session[sessionProperty]
GateOpen(session) ==
    session.present /\ session.user # Absent /\ session.user # ""

\* returnTo put into the redirect as it is
ReturnToParam_Raw(str) == str

\* const returnTo = encodeURIComponent(req.originalUrl)
ReturnToParam(str) == encodeURIComponent(str)

NoGate == [pc |-> "call", next |-> FALSE, status |-> 0, location |-> <<>>]

InitGate ==
    /\ gateSession \in GateSessions
    /\ originalUrl \in OriginalUrls
    /\ gate = NoGate
    /\ EscIdle /\ TxIdle /\ SrvIdle /\ LifeIdle
    /\ EscRest

\* the middleware runs
RequireAuth ==
    /\ gate.pc = "call"
    /\ gate' = IF GateOpen(gateSession)
               THEN [NoGate EXCEPT !.pc = "done", !.next = TRUE]
               ELSE [NoGate EXCEPT !.pc = "done", !.status = 302,
                        !.location = loginUrl \o <<"?", "returnTo=">>
                                        \o ReturnToParam(originalUrl)]
    /\ UNCHANGED <<gateSession, originalUrl, escVars, txVars, srvVars,
                   lifeVars, urlVars, mwVars, engVars, initVars>>

NextGate == RequireAuth

SpecGate == InitGate /\ [][NextGate]_vars

\* ------------------------------------------------------------------------
\* Specification SpecLifecycle: the application creates wrappers, drops its
\* references to them in any order and shuts the engine down; the garbage
\* collector runs the destructor of a wrapper nothing refers to any more
\* ------------------------------------------------------------------------
MaxJsObjects == 3

JsObjects == DOMAIN jsObjects

\* Napi::Persistent(serverObj): a strong reference to the Server object
Persistent_Unreferenced(serverObj) == Null
Persistent(serverObj) == serverObj

\* the constructors below are called while the engine is initialized
\* a wrapper as its constructor leaves it: the application holds it, ptr is
\* its native object, server the Server a transaction was made from
NewJsObject(kind, owns, serverObj) ==
    [kind |-> kind, appRef |-> TRUE, ptr |-> Len(natives) + 1, owns |-> owns,
     server |-> serverObj,
     server_ref_ |-> IF serverObj = Null THEN Null ELSE Persistent(serverObj),
     destroyed |-> FALSE]

\* the native object a constructor got from the engine
NewNative(kind) == [kind |-> kind, releases |-> 0, afterShutdown |-> FALSE]

LifeRest == <<escVars, txVars, srvVars, gateVars, urlVars, mwVars, engVars,
             initVars>>

Construct(kind, owns, serverObj) ==
    /\ Len(jsObjects) < MaxJsObjects
    /\ jsObjects' = Append(jsObjects, NewJsObject(kind, owns, serverObj))
    /\ natives' = Append(natives, NewNative(kind))
    /\ UNCHANGED LifeRest

\* Server.fromBuffers(...) -> Server::NewInstance
ServerNewInstance ==
    /\ g_lasso_initialized
    /\ Construct("Server", TRUE, Null)

\* new Identity()
NewIdentity ==
    /\ g_lasso_initialized
    /\ Construct("Identity", TRUE, Null)

\* new Session()
NewSession ==
    /\ g_lasso_initialized
    /\ Construct("Session", TRUE, Null)

\* the Server objects the application can pass to a constructor
UsableServers ==
    {o \in JsObjects : /\ jsObjects[o].kind = "Server"
                       /\ jsObjects[o].appRef
                       /\ jsObjects[o].ptr # Null}

\* new Login(server)
NewLogin(serverObj) ==
    /\ g_lasso_initialized
    /\ serverObj \in UsableServers
    /\ Construct("Login", TRUE, serverObj)

\* new Logout(server)
NewLogout(serverObj) ==
    /\ g_lasso_initialized
    /\ serverObj \in UsableServers
    /\ Construct("Logout", TRUE, serverObj)

\* the application drops its last reference to a wrapper
DropRef(o) ==
    /\ jsObjects[o].appRef
    /\ jsObjects' = [jsObjects EXCEPT ![o].appRef = FALSE]
    /\ UNCHANGED <<natives, LifeRest>>

\* nothing refers to the wrapper: neither the application nor a persistent
\* reference of a wrapper
Collectable(o, kind) ==
    /\ jsObjects[o].kind = kind
    /\ ~jsObjects[o].destroyed
    /\ ~jsObjects[o].appRef
    /\ \A t \in JsObjects : jsObjects[t].server_ref_ # o

\* g_object_unref / lasso_identity_destroy / lasso_session_destroy
Release(n) ==
    [natives EXCEPT ![n].releases = @ + 1,
                    ![n].afterShutdown = @ \/ ~g_lasso_initialized]

\* Identity::~Identity
IdentityDestructor(o) ==
    /\ Collectable(o, "Identity")
    /\ natives' = IF /\ jsObjects[o].ptr # Null /\ jsObjects[o].owns
                     /\ g_lasso_initialized
                  THEN Release(jsObjects[o].ptr) ELSE natives
    /\ jsObjects' = [jsObjects EXCEPT ![o].destroyed = TRUE, ![o].ptr = Null]
    /\ UNCHANGED LifeRest

\* Session::~Session
SessionDestructor(o) ==
    /\ Collectable(o, "Session")
    /\ natives' = IF jsObjects[o].ptr # Null /\ jsObjects[o].owns
                  THEN Release(jsObjects[o].ptr) ELSE natives
    /\ jsObjects' = [jsObjects EXCEPT ![o].destroyed = TRUE, ![o].ptr = Null]
    /\ UNCHANGED LifeRest

\* Login::~Login: server_ref_ is not reset, and its own destructor is
\* suppressed, so the reference to the Server stays
LoginDestructor(o) ==
    /\ Collectable(o, "Login")
    /\ natives' = IF jsObjects[o].ptr # Null /\ g_lasso_initialized
                  THEN Release(jsObjects[o].ptr) ELSE natives
    /\ jsObjects' = [jsObjects EXCEPT ![o].destroyed = TRUE, ![o].ptr = Null]
    /\ UNCHANGED LifeRest

\* Logout::~Logout
LogoutDestructor(o) ==
    /\ Collectable(o, "Logout")
    /\ natives' = IF jsObjects[o].ptr # Null
                  THEN Release(jsObjects[o].ptr) ELSE natives
    /\ jsObjects' = [jsObjects EXCEPT ![o].destroyed = TRUE, ![o].ptr = Null,
                                      ![o].server_ref_ = Null]
    /\ UNCHANGED LifeRest

\* Server::~Server
ServerDestructor(o) ==
    /\ Collectable(o, "Server")
    /\ natives' = IF jsObjects[o].ptr # Null /\ jsObjects[o].owns
                  THEN Release(jsObjects[o].ptr) ELSE natives
    /\ jsObjects' = [jsObjects EXCEPT ![o].destroyed = TRUE, ![o].ptr = Null]
    /\ UNCHANGED LifeRest

InitLifecycle ==
    /\ LibIdle
    /\ EscRest

NextLifecycle ==
    \/ ServerNewInstance
    \/ NewIdentity
    \/ NewSession
    \/ \E serverObj \in JsObjects : NewLogin(serverObj)
    \/ \E serverObj \in JsObjects : NewLogout(serverObj)
    \/ \E o \in JsObjects : DropRef(o)
    \/ \E o \in JsObjects : IdentityDestructor(o)
    \/ \E o \in JsObjects : SessionDestructor(o)
    \/ \E o \in JsObjects : LoginDestructor(o)
    \/ \E o \in JsObjects : LogoutDestructor(o)
    \/ \E o \in JsObjects : ServerDestructor(o)
    \/ \E rc \in ReturnCodes : LassoShutdown(rc)
    \/ \E rc \in ReturnCodes : LassoInit(rc)

SpecLifecycle == InitLifecycle /\ [][NextLifecycle]_vars

\* ------------------------------------------------------------------------
\* Vocabulary of the properties
\* ------------------------------------------------------------------------
\* the authenticated-principal record of a session object
AuthRecord(s) == <<s.user, s.samlNameId, s.samlNameIdFormat>>

NoAuthRecord == <<Absent, Absent, Absent>>

\* ANONYMOUS / AUTHENTICATED
Authenticated(s) == AuthRecord(s) # NoAuthRecord

SessionIds == 1..Len(sessions)

\* the CSRF state a request arriving now finds
StoredState == IF cur # 0 THEN sessions[cur].samlLoginState ELSE NoState

\* the requests whose handler is suspended, and the one answered last
InFlight == {r \in Requests :
                reqs[r].pc \in {"onAuth", "regenerate", "onLogout"}}
Seen == {reqs[r] : r \in InFlight} \cup {last}

\* request r arrives in this step; Arrived(r) is what became of it
Arrives(r) == reqs[r].kind = "none" /\ reqs'[r].kind # "none"
Arrived(r) == IF reqs'[r].kind = "answered" THEN last' ELSE reqs'[r]

\* the handler of rec got as far as calling config.onAuth
ReachedOnAuth(rec) ==
    \/ rec.pc \in {"onAuth", "regenerate"}
    \/ includes(rec.calls, "onAuth")
    \/ includes(rec.calls, "write")

\* the five conditions of /acs, as observed on the request and the engine
AcsConditionsMet(rec) ==
    /\ rec.samlResponse
    /\ rec.hadState
    /\ rec.elapsed <= stateMaxAge
    /\ rec.eng \in {"nameId", "nameId and format"}
    /\ rec.nameId # Absent
    /\ SubSeq(rec.calls, 1, 5) =
          <<"new Login", "processResponseMsg", "acceptSso", "nameId", "onAuth">>

\* a target that validation accepts, or the configured default
ValidOrDefault(t) ==
    isValidRedirectUrl(t, allowedRedirectHosts) \/ t = defaultRedirectUrl

\* ------------------------------------------------------------------------
\* C1
\* ------------------------------------------------------------------------
C1_OnAuthOnlyAfterChecks ==
    \A rec \in Seen :
        (rec.kind = "acs" /\ ReachedOnAuth(rec)) => AcsConditionsMet(rec)

C1_RecordWrittenOnlyByAcs ==
    \A s \in SessionIds :
        (AuthRecord(sessions'[s]) # AuthRecord(sessions[s])) =>
            /\ last'.kind = "acs"
            /\ last'.session = s
            /\ AcsConditionsMet(last')
            /\ last'.calls[Len(last'.calls)] = "write"
            \* the CSRF state it consumed was stored by a /login
            /\ last'.nonce >= 1 /\ last'.nonce < nextNonce

\* C1: POST /acs invokes onAuth and writes the authenticated-principal
\* record only if, in that request and in this order, a CSRF state was
\* present, its age was within stateMaxAge, processResponseMsg and acceptSso
\* returned without error and a nameId was extracted; a session's record is
\* written by nothing but such an /acs, which needs a /login before it.
C1_AuthOnlyThroughLoginAndAcs ==
    []C1_OnAuthOnlyAfterChecks /\ [][C1_RecordWrittenOnlyByAcs]_vars

C1_Witness ==
    /\ last.kind = "acs"
    /\ last.status = 302
    /\ includes(last.calls, "write")
    /\ Authenticated(sessions[last.session])

\* ------------------------------------------------------------------------
\* C2
\* ------------------------------------------------------------------------
C2_Step ==
    \A r \in Requests :
        (/\ Arrives(r)
         /\ Arrived(r).kind = "acs"
         /\ Arrived(r).samlResponse
         /\ ~StoredState.present)
        => /\ reqs'[r].kind = "answered"
           /\ last'.status = 400
           /\ ~includes(last'.calls, "new Login")
           /\ ~includes(last'.calls, "onAuth")
           /\ sessions' = sessions
           /\ cur' = cur

\* C2: POST /acs with a SAMLResponse on a session that holds no CSRF state
\* is answered 400, creates no Login, does not invoke onAuth and leaves the
\* session as it was.
C2_NoStateRejected == [][C2_Step]_vars

C2_Witness ==
    /\ last.kind = "acs"
    /\ last.samlResponse
    /\ ~last.hadState
    /\ last.session # 0
    /\ last.status = 400

\* ------------------------------------------------------------------------
\* C3
\* ------------------------------------------------------------------------
C3_Step ==
    \A r \in Requests :
        (/\ Arrives(r)
         /\ Arrived(r).kind = "acs"
         /\ Arrived(r).samlResponse
         /\ StoredState.present
         /\ now' - StoredState.timestamp > stateMaxAge)
        => /\ reqs'[r].kind = "answered"
           /\ last'.status = 400
           /\ cur' = cur
           /\ ~sessions'[cur].samlLoginState.present
           /\ AuthRecord(sessions'[cur]) = AuthRecord(sessions[cur])

\* C3: POST /acs with a CSRF state older than stateMaxAge is answered 400,
\* the stored CSRF state is removed from the session and nothing else in
\* the session changes.
C3_ExpiredStateCleared == [][C3_Step]_vars

\* ------------------------------------------------------------------------
\* C4
\* ------------------------------------------------------------------------
\* C4: the CSRF age check passes if and only if now - timestamp <=
\* stateMaxAge; with stateMaxAge = 300000 an age of 299999 and of 300000
\* is accepted and an age of 300001 is rejected.
C4_AgeCheckBoundary ==
    \A rec \in Seen :
        (rec.kind = "acs" /\ rec.samlResponse /\ rec.hadState) =>
            /\ rec.csrfPassed <=> rec.elapsed <= stateMaxAge
            /\ stateMaxAge = 300000 =>
                  /\ rec.elapsed \in {299999, 300000} => rec.csrfPassed
                  /\ rec.elapsed = 300001 => ~rec.csrfPassed

C4_Witness ==
    /\ stateMaxAge = 300000
    /\ last.kind = "acs"
    /\ last.hadState
    /\ last.elapsed = 300000
    /\ last.csrfPassed

\* ------------------------------------------------------------------------
\* C5
\* ------------------------------------------------------------------------
\* C5: for the CSRF state stored by one /login (told by its nonce), at most
\* one /acs request passes the CSRF check, whatever the sequence or
\* interleaving of the requests.
C5_StateSingleUse ==
    /\ \A i, j \in InFlight :
          (i # j /\ reqs[i].csrfPassed /\ reqs[j].csrfPassed)
              => reqs[i].nonce # reqs[j].nonce
    /\ \A i \in InFlight :
          (reqs[i].csrfPassed /\ last.kind = "acs" /\ last.csrfPassed)
              => reqs[i].nonce # last.nonce

\* ------------------------------------------------------------------------
\* C6
\* ------------------------------------------------------------------------
\* C6: for every returnTo t that validation accepts, /login stores a CSRF
\* state whose relay target is t and redirects to the provider with
\* RelayState = t; the /acs that follows on that session, the state
\* unexpired and the assertion accepted, invokes onAuth exactly once,
\* leaves the session AUTHENTICATED and redirects to t.
C6_EndToEndLogin ==
    /\ (/\ last.kind = "login"
        /\ last.returnTo # <<>>
        /\ isValidRedirectUrl(last.returnTo, allowedRedirectHosts)
        /\ last.session # 0
        /\ last.status = 302)
       => /\ sessions[last.session].samlLoginState.present
          /\ sessions[last.session].samlLoginState.relayState = last.returnTo
          /\ RelayStateParam(last.location) = last.returnTo
    /\ (/\ last.kind = "acs"
        /\ last.status = 302)
       => /\ Cardinality({i \in 1..Len(last.calls) : last.calls[i] = "onAuth"}) = 1
          /\ last.location = last.storedRelay
          /\ cur # 0
          /\ Authenticated(sessions[cur])

\* ------------------------------------------------------------------------
\* C7
\* ------------------------------------------------------------------------
\* C7: the redirect of a successful /acs is the relay target stored in the
\* session at /login if validation accepts it, else the configured default,
\* whatever RelayState the /acs request carries.
C7_RedirectFromStoredState ==
    \A rec \in Seen :
        (rec.kind = "acs" /\ rec.csrfPassed) =>
            LET target == IF rec.storedRelay # <<>>
                             /\ isValidRedirectUrl(rec.storedRelay,
                                                   allowedRedirectHosts)
                          THEN rec.storedRelay ELSE defaultRedirectUrl
            IN /\ rec.relayState = target
               /\ rec.status = 302 => rec.location = target

C7_Witness ==
    /\ last.kind = "acs"
    /\ last.status = 302
    /\ last.reqRelayState # <<>>
    /\ last.location # last.reqRelayState
    /\ last.location = last.storedRelay

C9_RelativeTargets ==
    urlPc = "return" =>
        /\ (startsWith(url, <<"/">>) /\ ~startsWith(url, <<"/", "/">>))
              => verdict = TRUE
        /\ startsWith(url, <<"/", "/">>) => verdict = FALSE

C9_Witness ==
    /\ urlPc = "return"
    /\ url = <<"/", "/", "example.com">>
    /\ hosts = <<HostExample>>
    /\ verdict = FALSE

\* ------------------------------------------------------------------------
\* C10
\* ------------------------------------------------------------------------
\* C10: a target that is not a single-slash relative path is rejected when
\* there is no allow-list or an empty one, whatever its scheme; with a
\* non-empty allow-list it is accepted if and only if it parses as a URL
\* whose host equals an allow-list entry, and rejected when it does not
\* parse.
C10_AbsoluteTargets ==
    (/\ urlPc = "return"
     /\ ~(startsWith(url, <<"/">>) /\ ~startsWith(url, <<"/", "/">>)))
    => /\ IF hosts = Absent THEN verdict = FALSE
          ELSE IF hosts = <<>> THEN verdict = FALSE
          ELSE LET parsed == ParseUrl(url) IN
               /\ ~parsed.ok => verdict = FALSE
               /\ parsed.ok =>
                     (verdict <=> \E i \in 1..Len(hosts) : hosts[i] = parsed.host)
       \* the cases the claim names
       /\ (url = <<"https", ":", "/", "/", "example.com">>
           /\ hosts # Absent /\ includes(hosts, HostExample))
          => verdict = TRUE
       /\ url = <<"https", ":", "/", "/", "example.com.evil.com">>
          => verdict = FALSE
       /\ (Len(url) >= 2 /\ url[1] = "javascript" /\ url[2] = ":"
           /\ ~startsWith(SubSeq(url, 3, Len(url)), <<"/", "/">>))
          => verdict = FALSE

C10_Witness ==
    /\ urlPc = "return"
    /\ url = <<"https", ":", "/", "/", "example.com.evil.com">>
    /\ hosts = <<HostExample>>
    /\ verdict = FALSE

\* ------------------------------------------------------------------------
\* C11
\* ------------------------------------------------------------------------
C11_Step ==
    \A r \in Requests :
        (reqs[r].pc = "regenerate" /\ reqs'[r].kind = "answered") =>
            LET old == reqs[r].session IN
            \* the session was regenerated: later requests read a new one
            /\ cur' # old
            /\ IF last'.status = 302
               THEN /\ AuthRecord(sessions'[cur']) =
                          <<reqs[r].user, reqs[r].nameId, reqs[r].nameIdFormat>>
                    /\ AuthRecord(sessions'[old]) = AuthRecord(sessions[old])
               ELSE /\ last'.status = 500
                    /\ ~Authenticated(sessions'[cur'])
                    /\ AuthRecord(sessions'[old]) = AuthRecord(sessions[old])

\* C11: with regenerateSession enabled and a session that can regenerate, a
\* successful /acs regenerates the session before it writes an authenticated
\* field and writes the record into the session that exists after the
\* regeneration, not into the object it read before; when the regeneration
\* reports an error nothing is written and the request fails.
C11_RecordInRegeneratedSession == [][C11_Step]_vars

\* ------------------------------------------------------------------------
\* Vocabulary of the logout properties
\* ------------------------------------------------------------------------
LogoutKinds == {"logout", "slo post", "slo get"}
SloKinds == {"slo post", "slo get"}

\* the calls a logout handler makes on the protocol engine
EngineCalls == {"setNameId", "initRequest", "buildRequestMsg",
                "processRequestMsg", "processResponseMsg", "buildResponseMsg"}

\* the position of the first element of calls that is in S (0: none)
FirstIn(calls, S) ==
    IF \E i \in 1..Len(calls) : calls[i] \in S
    THEN CHOOSE i \in 1..Len(calls) :
            /\ calls[i] \in S
            /\ \A j \in 1..(i - 1) : calls[j] \notin S
    ELSE 0

\* how many times call occurs in calls
Count(calls, call) == Cardinality({i \in 1..Len(calls) : calls[i] = call})

\* ------------------------------------------------------------------------
\* C12
\* ------------------------------------------------------------------------
\* C12: every logout handler (GET /logout with a nameId, /slo with a logout
\* request or response) removes the authenticated-principal record from the
\* session before its first call on the protocol engine, so that after a
\* failure of any engine step the session holds no record.
C12_ClearedBeforeEngineCalls ==
    \A rec \in Seen :
        (rec.kind \in LogoutKinds /\ FirstIn(rec.calls, EngineCalls) # 0) =>
            /\ FirstIn(rec.calls, {"clear"}) # 0
            /\ FirstIn(rec.calls, {"clear"}) < FirstIn(rec.calls, EngineCalls)
            /\ (rec.status = 500 /\ rec.session # 0)
                  => ~HoldsRecord(rec.session)

\* ------------------------------------------------------------------------
\* C13
\* ------------------------------------------------------------------------
\* C13: on /slo with a logout request the record (session[sessionProperty],
\* samlNameId, samlNameIdFormat) is removed before buildResponseMsg is
\* called: a handler that called buildResponseMsg, whether it failed or
\* not, leaves a session without a record.
C13_ClearedBeforeBuildResponse ==
    (/\ last.kind \in SloKinds
     /\ last.samlRequest /\ ~last.samlResponse
     /\ includes(last.calls, "buildResponseMsg"))
    => /\ FirstIn(last.calls, {"clear"}) # 0
       /\ FirstIn(last.calls, {"clear"})
             < FirstIn(last.calls, {"buildResponseMsg"})
       /\ last.session # 0 => ~HoldsRecord(last.session)
       /\ cur # 0 => ~HoldsRecord(cur)

C13_Witness ==
    /\ last.kind \in SloKinds
    /\ last.samlRequest /\ ~last.samlResponse
    /\ last.hadRecord
    /\ last.eng = "buildResponseMsg throws"
    /\ last.status = 500
    /\ ~HoldsRecord(last.session)

\* ------------------------------------------------------------------------
\* C14
\* ------------------------------------------------------------------------
\* C14: GET /slo with a logout request answers with a redirect even when
\* buildResponseMsg fails.
C14_RedirectDespiteBuildFailure ==
    (/\ last.kind = "slo get"
     /\ last.samlRequest /\ ~last.samlResponse
     /\ includes(last.calls, "buildResponseMsg"))
    => /\ last.status = 302
       /\ last.body = "redirect"

\* ------------------------------------------------------------------------
\* C15
\* ------------------------------------------------------------------------
\* C15: after an /slo request (GET or POST, logout response or logout
\* request, session anonymous or authenticated before) that completes
\* without error, the session holds none of session[sessionProperty],
\* samlNameId and samlNameIdFormat, and onLogout, if configured, was
\* invoked exactly once.
C15_SloLeavesAnonymous ==
    (/\ last.kind \in SloKinds
     /\ last.samlRequest \/ last.samlResponse
     /\ last.status \in {200, 302})
    => /\ last.session # 0 => AuthRecord(sessions[last.session]) = NoAuthRecord
       /\ cur # 0 => AuthRecord(sessions[cur]) = NoAuthRecord
       /\ Count(last.calls, "onLogout") = IF onLogout THEN 1 ELSE 0

C15_Witness ==
    /\ last.kind \in SloKinds
    /\ last.samlResponse
    /\ last.hadRecord
    /\ onLogout
    /\ last.status = 302
    /\ AuthRecord(sessions[last.session]) = NoAuthRecord

\* ------------------------------------------------------------------------
\* C16
\* ------------------------------------------------------------------------
\* the providers initServer registers on the Server: the identity provider
Providers == {"idp"}

\* C16: one SP-initiated logout (GET /logout with a nameId) repeats the
\* initiation path for each provider getNextProviderId returns until it
\* returns none, so that every registered provider is sent a logout request
\* exactly once.
C16_EachProviderNotified ==
    (last.kind = "logout" /\ last.nameId # Absent) =>
        /\ Count(last.calls, "getNextProviderId") >= 1
        /\ Count(last.calls, "initRequest") = Cardinality(Providers)
        /\ Count(last.calls, "buildRequestMsg") = Cardinality(Providers)

\* ------------------------------------------------------------------------
\* C17
\* ------------------------------------------------------------------------
\* the requests initMiddleware has let go of, with next() or next(err)
PastInit == {r \in Requests : initReqs[r] \notin {"none", "awaiting"}}

\* the requests whose route handler was entered
InHandler == {r \in Requests :
                 initReqs[r] \notin {"none", "awaiting", "init error"}}

\* C17: for any number of first requests arriving before initialization has
\* finished, initServer runs once, Server.fromBuffers and
\* addProviderFromBuffer are each called once, and each of the requests
\* goes on only after that one initialization has completed.
C17_InitializedOnce ==
    /\ initCalls.initServer <= 1
    /\ initCalls.fromBuffers <= 1
    /\ initCalls.addProviderFromBuffer <= 1
    /\ initCalls.initServer = 1 <=> initReqs[1] # "none"
    /\ PastInit # {} => initPromise \in {"fulfilled", "rejected"}
    /\ initPromise = "fulfilled" =>
          /\ initCalls = [initServer |-> 1, fromBuffers |-> 1,
                          addProviderFromBuffer |-> 1]
          /\ server = "provider added"

C17_Witness ==
    /\ initPromise = "pending"
    /\ \A r \in Requests : initReqs[r] = "awaiting"
    /\ initCalls.initServer = 1

\* ------------------------------------------------------------------------
\* C18
\* ------------------------------------------------------------------------
C18_ReadyOnlyWhenComplete ==
    /\ InHandler # {} =>
          /\ initPromise = "fulfilled"
          /\ server = "provider added"
    /\ \A r \in Requests :
          initReqs[r] \notin {"Server not initialized",
                              "transaction on no provider"}
    /\ initPromise = "rejected" => InHandler = {}

C18_FailureIsFinal ==
    initPromise = "rejected" =>
        /\ initPromise' = "rejected"
        /\ server' = server
        /\ initCalls' = initCalls
        /\ \A r \in Requests :
              (initReqs[r] = "awaiting" /\ initReqs'[r] # "awaiting")
                  => initReqs'[r] = "init error"

\* C18: a handler creates a Login or Logout only when initialization has
\* completed in full, the provider registered; once initialization has
\* failed at any step the middleware never becomes ready: every request is
\* answered with the initialization error and no handler body runs, even
\* when the server variable is already set.
C18_NoTransactionBeforeReady ==
    []C18_ReadyOnlyWhenComplete /\ [][C18_FailureIsFinal]_vars

C18_Witness ==
    /\ initPromise = "rejected"
    /\ server = "no provider"
    /\ \A r \in Requests : initReqs[r] = "init error"

\* ------------------------------------------------------------------------
\* C19
\* ------------------------------------------------------------------------
C19_Lifecycle ==
    \* the engine calls that took effect alternate, lasso_init first
    /\ engine.shutdownOk <= engine.initOk
    /\ engine.initOk <= engine.shutdownOk + 1
    \* the flag is true exactly between an init and the next shutdown
    /\ g_lasso_initialized <=> engine.initOk = engine.shutdownOk + 1
    /\ api.op = "isInitialized" =>
          api.result = IF g_lasso_initialized THEN "true" ELSE "false"

C19_Call ==
    /\ (api'.op = "init" /\ g_lasso_initialized) =>
          /\ api'.result = "true"
          /\ engine' = engine
          /\ g_lasso_initialized'
    /\ (api'.op = "shutdown" /\ ~g_lasso_initialized) =>
          /\ api'.result = "true"
          /\ engine' = engine
          /\ ~g_lasso_initialized'
    \* the engine is called on no other occasion
    /\ engine'.lasso_init # engine.lasso_init => ~g_lasso_initialized
    /\ engine'.lasso_shutdown # engine.lasso_shutdown => g_lasso_initialized
    \* a failed engine call raises an error and leaves the flag alone
    /\ (engine'.lasso_init # engine.lasso_init
        /\ engine'.initOk = engine.initOk) =>
          /\ api'.result = "throws"
          /\ g_lasso_initialized' = g_lasso_initialized
    /\ (engine'.lasso_shutdown # engine.lasso_shutdown
        /\ engine'.shutdownOk = engine.shutdownOk) =>
          /\ api'.result = "throws"
          /\ g_lasso_initialized' = g_lasso_initialized
    /\ api'.result = "throws" => g_lasso_initialized' = g_lasso_initialized

EscSpecial == {"&", "<", ">", "\"", "'"}

EntityOf(c) ==
    CASE c = "&"  -> <<"&", "amp", ";">>
      [] c = "<"  -> <<"&", "lt", ";">>
      [] c = ">"  -> <<"&", "gt", ";">>
      [] c = "\"" -> <<"&", "quot", ";">>
      [] c = "'"  -> <<"&", "#x27", ";">>
      [] OTHER    -> <<c>>

\* each character of s replaced by its entity, in one pass over s
RECURSIVE SinglePass(_)
SinglePass(s) ==
    IF s = <<>> THEN <<>> ELSE EntityOf(Head(s)) \o SinglePass(Tail(s))

HasSpecial(s) == \E i \in 1..Len(s) : s[i] \in EscSpecial

C30_SinglePass ==
    /\ passes = 1 => escaped = SinglePass(escArg)
    /\ passes >= 1 =>
          \A i \in 1..Len(escaped) : escaped[i] \notin {"<", ">", "\"", "'"}
    /\ (passes >= 1 /\ ~HasSpecial(escArg)) => escaped = escArg

C30_SecondPassDiffers ==
    (passes >= 1 /\ passes' = passes + 1 /\ HasSpecial(escArg))
        => escaped' # escaped

C30_EscapeHtml == []C30_SinglePass /\ [][C30_SecondPassDiffers]_vars

\* "<script>" has been escaped twice: &lt;script&gt;, then &amp;lt;...
C30_Witness ==
    /\ escArg = <<"<", "script", ">">>
    /\ passes = 2
    /\ escaped = <<"&", "amp", ";", "lt", ";", "script",
                    "&", "amp", ";", "gt", ";">>

\* ------------------------------------------------------------------------
\* C29: once addProviderFromBuffer(providerId, metadata) has returned,
\* getProvider(providerId) is never null and carries entityId = providerId,
\* whatever providerId and metadata were; getProvider of an id that was
\* never registered is null
\* ------------------------------------------------------------------------
C29_RegisteredIsFound ==
    srvResult.call = "getProvider" =>
        IF srvResult.providerId \in srvResult.registered
        THEN /\ srvResult.value.found
             /\ srvResult.value.entityId = srvResult.providerId
        ELSE ~srvResult.value.found

\* ------------------------------------------------------------------------
\* C22: every read of identity or session hands out a wrapper that owns a
\* native object of its own: never the transaction's object, never another
\* wrapper's, and nothing done to the transaction afterwards, its
\* destruction included, frees or changes what the wrapper holds
\* ------------------------------------------------------------------------
Held == {w \in DOMAIN wrappers :
            ~wrappers[w].destroyed /\ wrappers[w].ptr # Null}

C23_NullBeforeAccept ==
    (got.call \in {"nameId", "nameIdFormat", "identity", "session"}
        /\ ~got.accepted) => got.null

\* ------------------------------------------------------------------------
\* C24: an /acs request in which processResponseMsg fails, acceptSso fails,
\* no nameId is extracted or onAuth throws or rejects leaves the
\* authenticated-principal record of every session exactly as it was
\* ------------------------------------------------------------------------
\* the request is one of the aborted ones: by what the engine did with its
\* Login, or because onAuth, the handler's last call, made it fail
AcsAborted(rec) ==
    /\ rec.kind = "acs"
    /\ rec.csrfPassed
    /\ \/ rec.eng \in {"processResponseMsg throws", "acceptSso throws",
                       "no nameId"}
       \/ /\ rec.status = 500
          /\ rec.calls[Len(rec.calls)] = "onAuth"

RecordsUnchanged ==
    /\ Len(sessions') = Len(sessions)
    /\ cur' = cur
    /\ \A s \in SessionIds : AuthRecord(sessions'[s]) = AuthRecord(sessions[s])

C24_Step ==
    \A r \in Requests :
        \* every step of the handler of an aborted request: the one up to
        \* onAuth and the one that answers
        (\/ reqs'[r] # reqs[r] /\ AcsAborted(reqs'[r])
         \/ reqs[r].kind # "answered" /\ reqs'[r].kind = "answered"
               /\ AcsAborted(last'))
        => RecordsUnchanged

C24_AbortPersistsNothing == [][C24_Step]_vars

\* onAuth rejected on a session that another /acs had authenticated
\* meanwhile: the record is still there
C24_Witness ==
    /\ AcsAborted(last)
    /\ last.status = 500
    /\ last.calls[Len(last.calls)] = "onAuth"
    /\ last.session # 0
    /\ Authenticated(sessions[last.session])

\* ------------------------------------------------------------------------
\* C25: two /acs requests that pass the CSRF check and differ only in why
\* the assertion is not accepted (processResponseMsg or acceptSso failing,
\* or no nameId) are answered with the same status and the same body; a
\* missing and an expired CSRF state are answered alike
\* ------------------------------------------------------------------------
\* NODE_ENV of the process
NodeEnvs == {"development", "production"}

\* the body Express sends for next(err) when the application installs no
\* error handler of its own: the error's stack, which begins with its
\* message, or the status text in production
ErrorPage(rec, env) ==
    IF rec.status # 500 THEN rec.body
    ELSE IF env = "production" THEN "Internal Server Error"
    ELSE rec.err

NotAccepted(rec) ==
    /\ rec.kind = "acs"
    /\ rec.csrfPassed
    /\ rec.eng \in {"processResponseMsg throws", "acceptSso throws",
                    "no nameId"}

CsrfRefused(rec) ==
    rec.kind = "acs" /\ rec.samlResponse /\ ~rec.csrfPassed

C25_Step ==
    /\ (NotAccepted(last) /\ NotAccepted(last')) =>
          /\ last'.status = last.status
          /\ \A env \in NodeEnvs : ErrorPage(last', env) = ErrorPage(last, env)
    /\ (CsrfRefused(last) /\ CsrfRefused(last')) =>
          /\ last'.status = last.status
          /\ last'.body = last.body

C25_FlattenedFailure == [][C25_Step]_vars

\* ------------------------------------------------------------------------
\* C26: /acs accepts a response only when the request carries back, in its
\* RelayState, the nonce that /login generated and stored in the CSRF
\* state; without that nonce, or with another one, the response is
\* rejected even when the session holds a fresh CSRF state
\* ------------------------------------------------------------------------
\* the RelayState of the request holds the nonce
CarriesNonce(reqRelayState, nonce) ==
    \E i \in 1..Len(reqRelayState) : reqRelayState[i] = ToString(nonce)

C26_NonceRequired ==
    \A rec \in Seen :
        (/\ rec.kind = "acs"
         /\ \/ ReachedOnAuth(rec)
            \/ rec.status = 302)
        => CarriesNonce(rec.reqRelayState, rec.nonce)

\* ------------------------------------------------------------------------
\* C27: POST /acs without a SAMLResponse, and GET or POST /slo with neither
\* SAMLRequest nor SAMLResponse, are answered 400, create no Login and no
\* Logout, invoke no callback and leave every session, CSRF state and
\* record alike, as it was
\* ------------------------------------------------------------------------
Malformed(rec) ==
    \/ rec.kind = "acs" /\ ~rec.samlResponse
    \/ rec.kind \in SloKinds /\ ~rec.samlRequest /\ ~rec.samlResponse

C27_Step ==
    \A r \in Requests :
        (Arrives(r) /\ Malformed(Arrived(r)))
        => /\ reqs'[r].kind = "answered"
           /\ last'.status = 400
           /\ \A call \in {"new Login", "new Logout", "onAuth", "onLogout"} :
                 ~includes(last'.calls, call)
           /\ sessions' = sessions
           /\ cur' = cur

C27_MalformedIsClientError == [][C27_Step]_vars

\* /slo without a message on an authenticated session: 400, and the
\* session is authenticated still
C27_Witness ==
    /\ last.kind \in SloKinds
    /\ ~last.samlRequest /\ ~last.samlResponse
    /\ last.status = 400
    /\ last.hadRecord
    /\ last.session # 0
    /\ Authenticated(sessions[last.session])

\* ------------------------------------------------------------------------
\* C28: GET /logout without a bound principal (getNameId returns null or,
\* getNameId not configured, the session has no samlNameId) creates no
\* Logout and makes no engine call, invokes onLogout once if configured,
\* removes session[sessionProperty] and redirects to logoutRedirectUrl;
\* with a bound principal it creates one Logout and answers with the
\* provider's logout directive
\* ------------------------------------------------------------------------
C28_LocalOnly ==
    (last.kind = "logout" /\ last.nameId = Absent) =>
        /\ ~includes(last.calls, "new Logout")
        /\ FirstIn(last.calls, EngineCalls) = 0
        /\ Count(last.calls, "onLogout") = IF onLogout THEN 1 ELSE 0
        \* unless onLogout itself failed
        /\ last.status # 500 =>
              /\ last.status = 302
              /\ last.location = logoutRedirectUrl
              /\ last.session # 0 => sessions[last.session].user = Absent

C28_ProviderLogout ==
    (last.kind = "logout" /\ last.nameId # Absent) =>
        /\ Count(last.calls, "new Logout") = 1
        /\ \/ last.status = 302 /\ last.location = IdpSloUrl
           \/ last.status = 200 /\ last.body = "form"

C28_LogoutByPrincipal == C28_LocalOnly /\ C28_ProviderLogout

\* ------------------------------------------------------------------------
\* C31: requireAuth calls next() if and only if the request has a session
\* whose sessionProperty entry is truthy; otherwise it does not call next()
\* and redirects to loginUrl with returnTo = the URL-encoded original URL,
\* so that the login round trip ends with a redirect to the original URL
\* ------------------------------------------------------------------------
\* req.query.returnTo as /login reads it from the redirect of requireAuth
ReturnToRead == decodeURIComponent(AfterToken(gate.location, "returnTo="))

\* where /acs redirects after a /login that was given ReturnToRead
RoundTripTarget ==
    AcsRelayState([NoState EXCEPT !.present = TRUE,
                                  !.relayState = LoginRelayState(ReturnToRead)],
                  <<>>)

C31_Gate ==
    gate.pc = "done" =>
        /\ gate.next <=> (gateSession.present /\ gateSession.user = "user1")
        /\ gate.next => gate.status = 0
        /\ ~gate.next =>
              /\ gate.status = 302
              /\ gate.location = loginUrl \o <<"?", "returnTo=">>
                                    \o encodeURIComponent(originalUrl)
              /\ ReturnToRead = originalUrl

\* the claim as stated: back to the original URL, whatever it is
C31_BackToOriginalUrl ==
    C31_Gate /\ ((gate.pc = "done" /\ ~gate.next) => RoundTripTarget = originalUrl)

\* C31 as it holds: the round trip leads back to every original URL that
\* is a path with a single leading slash; a URL that begins with "//" is
\* replaced by the default target at /login
C31_RequireAuth ==
    /\ C31_Gate
    /\ (gate.pc = "done" /\ ~gate.next) =>
          IF startsWith(originalUrl, <<"/", "/">>)
          THEN RoundTripTarget = defaultRedirectUrl
          ELSE RoundTripTarget = originalUrl

C31_Witness ==
    /\ gate.pc = "done"
    /\ gateSession.present /\ gateSession.user = ""
    /\ originalUrl = <<"/", "protected", "?">>
    /\ gate.location = <<"/", "saml", "/", "login", "?", "returnTo=",
                         "%2F", "protected", "%3F">>

\* ------------------------------------------------------------------------
\* C34: when buildAuthnRequestMsg returns a POST-binding directive (a URL
\* and a body), /login answers with an auto-submitting form whose action is
\* the directive's URL and whose SAMLRequest field is its body, every
\* interpolated value HTML-escaped; it answers with a redirect only for a
\* redirect-binding directive
\* ------------------------------------------------------------------------
C34_FormForPostBinding ==
    (last.kind = "login" /\ last.status # 500) =>
        /\ last.eng = "msg_url and msg_body" =>
              /\ last.status = 200
              /\ last.body = "form"
              /\ last.formAction = escapeHtml(ResponseUrl(last.eng))
              /\ last.formSamlRequest = escapeHtml(ResponseBody(last.eng))
              /\ last.formRelayState = escapeHtml(last.relayState)
        /\ last.status = 302 => last.eng = "msg_url"

\* ------------------------------------------------------------------------
\* C32: every Login or Logout the middleware creates is created inside one
\* handler invocation, is the only one of that invocation, has only
\* initiation operations or only consumption operations applied to it,
\* never both, and is never stored in a session
\* ------------------------------------------------------------------------
Constructions == {"new Login", "new Logout"}
Initiations == {"initAuthnRequest", "buildAuthnRequestMsg", "initRequest",
                "buildRequestMsg"}
Consumptions == {"processResponseMsg", "acceptSso", "processRequestMsg",
                 "buildResponseMsg"}

C32_SingleUse ==
    /\ \A rec \in Seen :
          LET made == {i \in 1..Len(rec.calls) : rec.calls[i] \in Constructions}
              used == {i \in 1..Len(rec.calls) :
                          rec.calls[i] \in Initiations \cup Consumptions}
          IN /\ Cardinality(made) <= 1
             \* an operation is applied to the transaction this invocation made
             /\ \A i \in used : \E j \in made : j < i
             /\ ~(/\ \E i \in used : rec.calls[i] \in Initiations
                  /\ \E i \in used : rec.calls[i] \in Consumptions)
    \* what a session holds: the CSRF state and the record, no transaction
    /\ \A s \in SessionIds :
          DOMAIN sessions[s] = {"samlLoginState", "user", "samlNameId",
                                "samlNameIdFormat"}

\* three answered or suspended handlers, each with a transaction of its own
C32_Witness ==
    /\ last.kind \in SloKinds
    /\ includes(last.calls, "new Logout")
    /\ includes(last.calls, "processRequestMsg")
    /\ includes(last.calls, "buildResponseMsg")
    /\ \E r \in InFlight :
          reqs[r].kind = "acs" /\ includes(reqs[r].calls, "acceptSso")

\* ------------------------------------------------------------------------
\* C35: whenever a successful /acs writes the record in place, the session
\* not being regenerated, the handler emits a signal (a log entry or the
\* like) that tells this run from one with regeneration
\* ------------------------------------------------------------------------
Signals == {"log", "warn", "emit"}

C35_DegradedModeSignalled ==
    (/\ last.kind = "acs"
     /\ last.status = 302
     /\ includes(last.calls, "write")
     /\ ~includes(last.calls, "regenerate"))
    => \E i \in 1..Len(last.calls) : last.calls[i] \in Signals

\* ------------------------------------------------------------------------
\* C37: when initAuthnRequest or buildAuthnRequestMsg fails, /login leaves
\* every session exactly as it was, creating or replacing no CSRF state;
\* in every case /login leaves the authenticated record untouched
\* ------------------------------------------------------------------------
C37_Step ==
    \A r \in Requests :
        (Arrives(r) /\ Arrived(r).kind = "login") =>
            /\ Arrived(r).eng \in {"initAuthnRequest throws",
                                   "buildAuthnRequestMsg throws"}
                  => /\ sessions' = sessions
                     /\ cur' = cur
                     /\ last'.status = 500
            /\ Len(sessions') = Len(sessions)
            /\ \A s \in SessionIds :
                  AuthRecord(sessions'[s]) = AuthRecord(sessions[s])

C37_StateStoredAfterBuild == [][C37_Step]_vars

\* buildAuthnRequestMsg failed on a session that holds the CSRF state of an
\* earlier /login: the state is still there
C37_Witness ==
    /\ last.kind = "login"
    /\ last.eng = "buildAuthnRequestMsg throws"
    /\ last.status = 500
    /\ last.session # 0
    /\ sessions[last.session].samlLoginState.present
    /\ sessions[last.session].samlLoginState.nonce = 1

\* ------------------------------------------------------------------------
\* C38: a session holds one CSRF state at most: each successful /login
\* replaces the state by one with its own relay target, a new nonce and
\* its own timestamp; an /acs that follows measures the age from that
\* state and redirects to its target, and the state of an earlier /login
\* authorizes nothing any more
\* ------------------------------------------------------------------------
C38_Step ==
    \A r \in Requests :
        /\ (/\ Arrives(r) /\ Arrived(r).kind = "login"
            /\ Arrived(r).status # 500 /\ cur # 0)
           => LET state == sessions'[cur].samlLoginState IN
              /\ state.present
              /\ state.relayState = Arrived(r).relayState
              /\ state.timestamp = now'
              \* a nonce no state has had before
              /\ state.nonce = nextNonce /\ nextNonce' > nextNonce
              /\ \A s \in SessionIds :
                    sessions[s].samlLoginState.present
                        => sessions[s].samlLoginState.nonce < state.nonce
        /\ (/\ Arrives(r) /\ Arrived(r).kind = "acs"
            /\ Arrived(r).csrfPassed)
           => LET state == sessions[cur].samlLoginState IN
              /\ Arrived(r).nonce = state.nonce
              /\ Arrived(r).elapsed = now' - state.timestamp
              /\ Arrived(r).relayState =
                    IF isValidRedirectUrl(OrElse(state.relayState,
                                                 defaultRedirectUrl),
                                          allowedRedirectHosts)
                    THEN OrElse(state.relayState, defaultRedirectUrl)
                    ELSE defaultRedirectUrl

C38_OnePendingState == [][C38_Step]_vars

\* after two /login requests the /acs was checked against the second one's
\* state and redirected to its target
C38_Witness ==
    /\ last.kind = "acs"
    /\ last.status = 302
    /\ last.nonce = 2
    /\ last.elapsed = 0
    /\ now > 0
    /\ last.location = <<"/", "dashboard">>

\* ------------------------------------------------------------------------
\* C33: the copy made when an identity or session property is read never
\* falls back silently: every wrapper the read hands out is backed by a
\* native object that is neither null nor the empty object of the
\* constructor; a dump or a restoration that fails raises an error
\* ------------------------------------------------------------------------
C33_NoSilentFallback ==
    \A w \in DOMAIN wrappers :
        /\ wrappers[w].ptr # Null
        /\ wrappers[w].content # 0

\* ------------------------------------------------------------------------
\* C36: from the construction of a Login or Logout until it is destroyed,
\* the native object of the Server it was made from is never released,
\* whatever the order in which the application drops its references
\* ------------------------------------------------------------------------
Transactions ==
    {t \in JsObjects : /\ jsObjects[t].kind \in {"Login", "Logout"}
                       /\ ~jsObjects[t].destroyed}

C36_ServerBorrowed ==
    \A t \in Transactions :
        /\ ~jsObjects[jsObjects[t].server].destroyed
        /\ jsObjects[jsObjects[t].server].ptr # Null
        /\ natives[jsObjects[jsObjects[t].server].ptr].releases = 0

\* the application dropped the Server first and a Login and a Logout made
\* from it afterwards; the Logout is destroyed, the Login is not yet
C36_Witness ==
    \E t \in Transactions, u \in JsObjects :
        /\ jsObjects[t].kind = "Login"
        /\ ~jsObjects[t].appRef
        /\ ~jsObjects[jsObjects[t].server].appRef
        /\ jsObjects[u].kind = "Logout"
        /\ jsObjects[u].destroyed
        /\ jsObjects[u].server = jsObjects[t].server

\* ------------------------------------------------------------------------
\* C39: once shutdown() has succeeded, the destructor of no wrapper calls a
\* release function of the engine, and no native object is released more
\* than once
\* ------------------------------------------------------------------------
C39_NoReleaseAfterShutdown ==
    \A n \in DOMAIN natives :
        /\ ~natives[n].afterShutdown
        /\ natives[n].releases <= 1

=============================================================================
